---- MODULE Spec2Model ----
(***************************************************************************)
(* Tombstone: the bidirectional synchronisation engine (src/src/lib/sync.ts)*)
(* of one device process, its local Dexie store, its localStorage cursors,  *)
(* the remote Supabase tables, and the environment around them (the user's  *)
(* local mutations, other devices and the Owlet bridge writing to the       *)
(* remote store, the change feed, the device clock, the network).           *)
(*                                                                         *)
(* Time unit: one minute.  The source counts milliseconds; every time      *)
(* constant of the source is a whole number of minutes and the code only   *)
(* adds, subtracts, compares and takes min/max of timestamps, so the model *)
(* keeps the source's constants divided by 60000.                          *)
(*                                                                         *)
(* Granularity: one action per stretch of code between two awaits of the  *)
(* sync engine, one action per call of the mutation API.                   *)
(*                                                                         *)
(* Specifications, each over the same variables and actions:               *)
(*   SpecPush     push and pull of a session table under local mutations   *)
(*   SpecMerge    pull merge and change feed under remote writes           *)
(*   SpecCursor   cursor write and pull filter across the 30-day backstop  *)
(*   SpecReset    cursor read under a clock set back, with telemetry       *)
(*   SpecTelemetry  fast-forward and merge of the telemetry table          *)
(*   SpecLocal    the mutation API, offline and unconfigured included      *)
(*   SpecUnconfigured  the sync layer's entries without credentials        *)
(*   SpecOrder    a cycle through all seven tables                         *)
(*   SpecOverlap  every trigger of syncAll, several invocations in flight  *)
(***************************************************************************)
EXTENDS Integers, Sequences, FiniteSets, TLC

----------------------------------------------------------------------------
(* Bounds of the model *)

\* row ids per table
NumIds == 1
\* environment steps (mutations, remote writes, clock changes, failures) per run
MaxOps == 2
\* the same, in SpecPush
MaxPushOps == 3
\* the same, in SpecCursor, SpecReset and SpecTelemetry
MaxCursorOps == 3
\* the same, in SpecLocal
MaxLocalOps == 4
\* concurrently running syncAll invocations in SpecOverlap
MaxCycles == 2

----------------------------------------------------------------------------
(* Program constants, in minutes *)

FUTURE_TOLERANCE_MS == 5
OWLET_FAST_FORWARD_AFTER_MS == 3
OWLET_WINDOW_MS == 60
BACKSTOP_MS == 43200
OWLET_LIMIT == 600

----------------------------------------------------------------------------
(* Tables *)

\* syncAll's calls of syncTable, in order (local table names)
SyncOrder ==
  << "children", "sleepSessions", "feedingSessions", "pumpSessions",
     "diaperChanges", "growthMeasurements", "owletReadings" >>

LocalTables == { SyncOrder[k] : k \in 1..Len(SyncOrder) }

tableMapping ==
  [ children           |-> "children",
    sleepSessions      |-> "sleep_sessions",
    feedingSessions    |-> "feeding_sessions",
    pumpSessions       |-> "pump_sessions",
    diaperChanges      |-> "diaper_changes",
    growthMeasurements |-> "growth_measurements",
    owletReadings      |-> "owlet_readings" ]

TableName == { tableMapping[lt] : lt \in LocalTables }

localTableMapping ==
  [ children            |-> "children",
    sleep_sessions      |-> "sleepSessions",
    feeding_sessions    |-> "feedingSessions",
    pump_sessions       |-> "pumpSessions",
    diaper_changes      |-> "diaperChanges",
    growth_measurements |-> "growthMeasurements",
    owlet_readings      |-> "owletReadings" ]

Ids == 1..NumIds

\* the ids of sleep sessions: one more, for the session another device starts
\* while this device has one open
SleepIds == 1..(NumIds + 1)

\* the fixed id of the one child ('00000000-0000-0000-0000-000000000001')
DEFAULT_CHILD_ID == 0

\* the ids of children: the fixed id, and the random ids of older versions
ChildIds == Ids \cup { DEFAULT_CHILD_ID }

\* the ids of a local table and of its remote table
TableIds(lt) ==
  IF lt = "sleepSessions" THEN SleepIds
  ELSE IF lt = "children" THEN ChildIds
  ELSE Ids

----------------------------------------------------------------------------
(* Rows: the SyncableEntity fields, recordedAt of a reading, startTime and  *)
(* endTime of a session (0: undefined), childId of a row that belongs to a *)
(* child.  Row makes a row as it is when it is created: created and        *)
(* started as it is stamped, not ended, of the child with the fixed id.    *)

Row(u, st, d, r) ==
  [ updatedAt |-> u, syncStatus |-> st, _deleted |-> d, recordedAt |-> r,
    startTime |-> u, endTime |-> 0, createdAt |-> u, childId |-> DEFAULT_CHILD_ID ]

\* the ids of the activeTimers table
TimerIds == { "sleep", "feeding", "pump" }

\* no row under this id
NoRow == Row(0, "absent", FALSE, 0)

Exists(row) == row.syncStatus # "absent"

EmptyTable == [ i \in Ids |-> NoRow ]

Max(a, b) == IF a >= b THEN a ELSE b
Min(a, b) == IF a <= b THEN a ELSE b

\* Math.max(...records.map(r => r.updatedAt)) of a non-empty record map
MaxUpdatedAt(recs) ==
  CHOOSE m \in { recs[i].updatedAt : i \in DOMAIN recs } :
    \A i \in DOMAIN recs : recs[i].updatedAt <= m

----------------------------------------------------------------------------
(* localStorage: strings are sequences of characters *)

Digit == << "0", "1", "2", "3", "4", "5", "6", "7", "8", "9" >>

RECURSIVE NatToString(_)
NatToString(n) ==
  IF n < 10 THEN << Digit[n + 1] >>
  ELSE NatToString(n \div 10) \o << Digit[(n % 10) + 1] >>

\* Number.prototype.toString of an integer
toString(n) == IF n < 0 THEN << "-" >> \o NatToString(0 - n) ELSE NatToString(n)

DigitValue(ch) == CHOOSE d \in 0..9 : Digit[d + 1] = ch

RECURSIVE ParseDigits(_, _)
ParseDigits(s, acc) ==
  IF s = << >> THEN acc
  ELSE ParseDigits(Tail(s), acc * 10 + DigitValue(Head(s)))

\* parseInt(s, 10) of a string written by toString
parseInt(s) ==
  IF Head(s) = "-" THEN 0 - ParseDigits(Tail(s), 0) ELSE ParseDigits(s, 0)

\* getItem's null
Null == << >>

lastSyncKey(tableName) ==
  CASE tableName = "children"            -> "lastSync_children"
    [] tableName = "sleep_sessions"      -> "lastSync_sleep_sessions"
    [] tableName = "feeding_sessions"    -> "lastSync_feeding_sessions"
    [] tableName = "pump_sessions"       -> "lastSync_pump_sessions"
    [] tableName = "diaper_changes"      -> "lastSync_diaper_changes"
    [] tableName = "growth_measurements" -> "lastSync_growth_measurements"
    [] tableName = "owlet_readings"      -> "lastSync_owlet_readings"

StorageKeys == { lastSyncKey(t) : t \in TableName } \cup { "lastGlobalSync" }

----------------------------------------------------------------------------
VARIABLES
  now,           \* Date.now() of the device
  online,        \* navigator.onLine
  configured,    \* isSupabaseConfigured()
  local,         \* the Dexie tables: local table name -> id -> row
  remote,        \* the Supabase tables: remote table name -> id -> row
  localStorage,  \* key -> string (Null: no item)
  cyc,           \* the running syncAll invocations, by slot
  syncTimeout,   \* TRUE while a debounce timer is set and has not fired
  syncPromise,   \* 0 (null) or the slot whose cycle the promise belongs to
  waiting,       \* slot -> fired timer callbacks awaiting that cycle's promise
  ready,         \* timer callbacks whose awaited promise has settled
  rt,            \* the change-feed handler between its get and its put
  feed,          \* DELETE events not yet delivered: <<table, id>>
  used,          \* ids already taken (uuidv4 draws fresh ones), per local table
  ops,           \* environment steps the run may still take
  via,           \* history: who wrote each local row last
  activeTimers,  \* the Dexie activeTimers table: timer id -> activityId (0: no timer)
  told,          \* history: the rows whose present version a push has uploaded
                 \* and marked, per local table
  mc,            \* the invocation of initialSync and of its mergeChildren
  peer,          \* a second device: its feedingSessions table and its storage
  last           \* history: the step taken last and what it started from

vars ==
  << now, online, configured, local, remote, localStorage, cyc,
     syncTimeout, syncPromise, waiting, ready, rt, feed, used, ops, via,
     activeTimers, told, mc, peer, last >>

\* History: a write of the rows S of table lt leaves new versions of them
Rewritten(lt, S) == [told EXCEPT ![lt] = @ \ S]

----------------------------------------------------------------------------
(* Cursor store *)

\* mutant of getLastSyncTime: the stored cursor is returned whatever the clock
getLastSyncTime_unguarded(store, tableName, nowv) ==
  LET stored == store[lastSyncKey(tableName)]
  IN  [ ret |-> IF stored # Null THEN parseInt(stored) ELSE 0, store |-> store ]

\* getLastSyncTime: the value returned and the storage it leaves
getLastSyncTime(store, tableName, nowv) ==
  LET key    == lastSyncKey(tableName)
      stored == store[key]
      parsed == IF stored # Null THEN parseInt(stored) ELSE 0
  IN  IF parsed > nowv + FUTURE_TOLERANCE_MS
      THEN [ ret |-> 0, store |-> [store EXCEPT ![key] = Null] ]
      ELSE [ ret |-> parsed, store |-> store ]

\* mutant of setLastSyncTime: the requested time is stored as it comes
setLastSyncTime_unclamped(store, tableName, time, nowv) ==
  [store EXCEPT ![lastSyncKey(tableName)] = toString(time)]

\* mutant of setLastSyncTime: one cursor for all the tables
setLastSyncTime_shared(store, tableName, time, nowv) ==
  [ k \in DOMAIN store |-> IF k = "lastGlobalSync" THEN store[k]
                            ELSE toString(Min(time, nowv)) ]

\* setLastSyncTime: the storage it leaves
setLastSyncTime(store, tableName, time, nowv) ==
  LET key     == lastSyncKey(tableName)
      clamped == Min(time, nowv)
  IN  [store EXCEPT ![key] = toString(clamped)]

----------------------------------------------------------------------------
(* Record maps: id -> row, over a subset of the ids *)

Restrict(f, S) == [ i \in S |-> f[i] ]

NoRecords == Restrict(EmptyTable, {})

\* localTable.where('syncStatus').equals('pending').toArray()
PendingRecords(tbl) ==
  Restrict(tbl, { i \in DOMAIN tbl : tbl[i].syncStatus = "pending" })

\* mutant of upsert: the remote store stamps a row it updates
upsert_stamping(rtbl, records) ==
  [ i \in DOMAIN rtbl |-> IF i \in DOMAIN records
                  THEN IF Exists(rtbl[i])
                       THEN [records[i] EXCEPT !.updatedAt = rtbl[i].updatedAt + 1]
                       ELSE records[i]
                  ELSE rtbl[i] ]

\* .upsert(records, { onConflict: 'id' }) on a remote table
upsert(rtbl, records) ==
  [ i \in DOMAIN rtbl |-> IF i \in DOMAIN records THEN records[i] ELSE rtbl[i] ]

\* { ...remote, syncStatus: 'synced' }
AsSynced(row) == [row EXCEPT !.syncStatus = "synced"]

\* mutant of markSynced: nothing is marked
markSynced_none(tbl, ids) == tbl

\* mutant of markSynced: rows that are soft-deleted are passed over
markSynced_live(tbl, ids) ==
  [ i \in DOMAIN tbl |-> IF i \in ids /\ Exists(tbl[i]) /\ ~tbl[i]._deleted
                  THEN AsSynced(tbl[i]) ELSE tbl[i] ]

\* localTable.where('id').anyOf(ids).modify(r => { r.syncStatus = 'synced' })
markSynced(tbl, ids) ==
  [ i \in DOMAIN tbl |-> IF i \in ids /\ Exists(tbl[i]) THEN AsSynced(tbl[i]) ELSE tbl[i] ]

\* localTable.bulkPut(records)
bulkPut(tbl, records) ==
  [ i \in DOMAIN tbl |-> IF i \in DOMAIN records THEN records[i] ELSE tbl[i] ]

\* mutant of mergeWrites: a tie goes to the remote row
mergeWrites_ties(localRow, remoteRow) ==
  ~Exists(localRow) \/ remoteRow.updatedAt >= localRow.updatedAt

\* the merge loop's test: !local || remote.updatedAt > local.updatedAt
mergeWrites(localRow, remoteRow) ==
  ~Exists(localRow) \/ remoteRow.updatedAt > localRow.updatedAt

\* mutant of realtimeWrites: every event is applied
realtimeWrites_always(localRow, record) == TRUE

\* the change-feed handler's test: !local || record.updatedAt > local.updatedAt
realtimeWrites(localRow, record) ==
  ~Exists(localRow) \/ record.updatedAt > localRow.updatedAt

\* mutant of realtimeDelete: a pending row survives the event
realtimeDelete_keepsPending(tbl, hasId, i) ==
  IF hasId /\ tbl[i].syncStatus # "pending" THEN [tbl EXCEPT ![i] = NoRow] ELSE tbl

\* the change-feed handler on DELETE: payload.old?.id, then localTable.delete
realtimeDelete(tbl, hasId, i) ==
  IF hasId THEN [tbl EXCEPT ![i] = NoRow] ELSE tbl

----------------------------------------------------------------------------
(* The pull query *)

\* mutant of owletFastForward: a cursor exactly 3 minutes old is stale
owletFastForward_atThree(tableName, lastSync, nowv) ==
  /\ tableName = "owlet_readings"
  /\ (lastSync = 0 \/ nowv - lastSync >= OWLET_FAST_FORWARD_AFTER_MS)

owletFastForward(tableName, lastSync, nowv) ==
  /\ tableName = "owlet_readings"
  /\ (lastSync = 0 \/ nowv - lastSync > OWLET_FAST_FORWARD_AFTER_MS)

\* mutant of Selected: the cursor is the only filter
Selected_noBackstop(rtbl, tableName, lastSync, nowv) ==
  IF owletFastForward(tableName, lastSync, nowv)
  THEN { i \in DOMAIN rtbl : Exists(rtbl[i]) /\ rtbl[i].recordedAt >= nowv - OWLET_WINDOW_MS }
  ELSE IF lastSync > 0
  THEN { i \in DOMAIN rtbl : Exists(rtbl[i]) /\ rtbl[i].updatedAt > lastSync }
  ELSE { i \in DOMAIN rtbl : Exists(rtbl[i]) }

\* the ids of the rows the query's filter selects
Selected(rtbl, tableName, lastSync, nowv) ==
  IF owletFastForward(tableName, lastSync, nowv)
  THEN { i \in DOMAIN rtbl : Exists(rtbl[i]) /\ rtbl[i].recordedAt >= nowv - OWLET_WINDOW_MS }
  ELSE IF lastSync > 0
  THEN { i \in DOMAIN rtbl : /\ Exists(rtbl[i])
                     /\ \/ rtbl[i].updatedAt > lastSync
                        \/ rtbl[i].updatedAt >= nowv - BACKSTOP_MS }
  ELSE { i \in DOMAIN rtbl : Exists(rtbl[i]) }

\* .order('recordedAt', { ascending: true }).limit(n): the possible results
\* (rows of equal recordedAt come in any order)
LimitAscending(rtbl, S, n) ==
  IF Cardinality(S) <= n THEN { S }
  ELSE { L \in SUBSET S :
           /\ Cardinality(L) = n
           /\ \A i \in L, j \in S \ L : rtbl[i].recordedAt <= rtbl[j].recordedAt }

\* the record maps the query may return
QueryResults(rtbl, tableName, lastSync, nowv) ==
  LET S == Selected(rtbl, tableName, lastSync, nowv)
  IN  IF owletFastForward(tableName, lastSync, nowv)
      THEN { Restrict(rtbl, L) : L \in LimitAscending(rtbl, S, OWLET_LIMIT) }
      ELSE { Restrict(rtbl, S) }

----------------------------------------------------------------------------
(* One syncAll invocation *)

NoResult == [ count |-> 0, errors |-> << >> ]

IdleCycle ==
  [ pc |-> "idle", origin |-> "none", ti |-> 0,
    batch |-> NoRecords, pushRes |-> NoResult,
    lastSync |-> 0, ff |-> FALSE, fetched |-> NoRecords, todo |-> {},
    cur |-> 0, rl |-> NoRow, updated |-> 0, results |-> << >> ]

NoReturn ==
  [ success |-> FALSE, totalPushed |-> 0, totalPulled |-> 0, errors |-> << "none" >> ]

\* History: what the last step was and what it started from
Step(op, s, t, id) ==
  [ op       |-> op, s |-> s, t |-> t, id |-> id,
    pre      |-> IF t = "" THEN EmptyTable ELSE local[t],
    preR     |-> IF t = "" THEN EmptyTable ELSE remote[tableMapping[t]],
    preItem  |-> IF t = "" THEN Null ELSE localStorage[lastSyncKey(tableMapping[t])],
    rec      |-> NoRow,
    rl       |-> NoRow,
    lastSync |-> 0,
    records  |-> NoRecords,
    res      |-> NoResult,
    ret      |-> NoReturn ]

EnvStep == Step("env", 0, "", 0)

PushError(tableName) == << "Push error for", tableName >>
PullError(tableName) == << "Pull error for", tableName >>

\* mutant of FinishTable: a table whose pull failed ends the cycle
FinishTable_abort(c, order, pullRes) ==
  [ c EXCEPT
      !.results = Append(@, [ pushed |-> c.pushRes.count,
                              pulled |-> pullRes.count,
                              errors |-> c.pushRes.errors \o pullRes.errors ]),
      !.pc      = IF c.ti = Len(order) \/ pullRes.errors # << >>
                  THEN "return" ELSE "push_read",
      !.ti      = IF c.ti = Len(order) \/ pullRes.errors # << >> THEN c.ti ELSE c.ti + 1,
      !.batch   = NoRecords,
      !.pushRes = NoResult,
      !.ff      = FALSE,
      !.fetched = NoRecords,
      !.todo    = {},
      !.cur     = 0,
      !.rl      = NoRow,
      !.updated = 0 ]

\* mutant of FinishTable: the table after the next one comes next
FinishTable_skips(c, order, pullRes) ==
  [ c EXCEPT
      !.results = Append(@, [ pushed |-> c.pushRes.count,
                              pulled |-> pullRes.count,
                              errors |-> c.pushRes.errors \o pullRes.errors ]),
      !.pc      = IF c.ti >= Len(order) - 1 THEN "return" ELSE "push_read",
      !.ti      = IF c.ti >= Len(order) - 1 THEN c.ti ELSE c.ti + 2,
      !.batch   = NoRecords,
      !.pushRes = NoResult,
      !.ff      = FALSE,
      !.fetched = NoRecords,
      !.todo    = {},
      !.cur     = 0,
      !.rl      = NoRow,
      !.updated = 0 ]

\* syncTable's return value joins results; syncAll goes on to the next table
FinishTable(c, order, pullRes) ==
  [ c EXCEPT
      !.results = Append(@, [ pushed |-> c.pushRes.count,
                              pulled |-> pullRes.count,
                              errors |-> c.pushRes.errors \o pullRes.errors ]),
      !.pc      = IF c.ti = Len(order) THEN "return" ELSE "push_read",
      !.ti      = IF c.ti = Len(order) THEN c.ti ELSE c.ti + 1,
      !.batch   = NoRecords,
      !.pushRes = NoResult,
      !.ff      = FALSE,
      !.fetched = NoRecords,
      !.todo    = {},
      !.cur     = 0,
      !.rl      = NoRow,
      !.updated = 0 ]

\* pushChanges up to the upsert request: read the pending rows
pushChanges_read(s, order) ==
  LET c  == cyc[s]
      lt == order[c.ti]
      pendingRecords == PendingRecords(local[lt])
  IN  /\ c.pc = "push_read"
      /\ cyc' = [cyc EXCEPT ![s] =
                   IF DOMAIN pendingRecords = {}
                   THEN [c EXCEPT !.pc = "pull_query", !.pushRes = NoResult]
                   ELSE [c EXCEPT !.pc = "push_upsert", !.batch = pendingRecords]]
      /\ last' = [Step("push_read", s, lt, 0) EXCEPT !.records = pendingRecords]
      /\ UNCHANGED << now, online, configured, local, remote, localStorage,
                      syncTimeout, syncPromise, waiting, ready, rt, feed, used, ops, via,
                  activeTimers, told, mc, peer >>

\* mutant of pushChanges_failed: the error is recorded and the rows marked
pushChanges_failed_marks(c, tableName) ==
  [ c EXCEPT !.pc = "push_mark",
             !.pushRes = [ count |-> 0, errors |-> << PushError(tableName) >> ] ]

\* pushChanges when the upsert answers with an error: one error string,
\* count 0, nothing marked; syncTable goes on to the pull
pushChanges_failed(c, tableName) ==
  [ c EXCEPT !.pc = "pull_query",
             !.pushRes = [ count |-> 0, errors |-> << PushError(tableName) >> ] ]

\* the upsert request and its answer
pushChanges_upsert(s, order) ==
  LET c  == cyc[s]
      lt == order[c.ti]
      tn == tableMapping[lt]
  IN  /\ c.pc = "push_upsert"
      /\ \/ /\ remote' = [remote EXCEPT ![tn] = upsert(@, c.batch)]
            /\ cyc' = [cyc EXCEPT ![s] = [c EXCEPT !.pc = "push_mark"]]
            /\ last' = [Step("push_upsert", s, lt, 0) EXCEPT !.records = c.batch]
            /\ UNCHANGED ops
         \/ /\ ops > 0
            /\ ops' = ops - 1
            \* the error of a request that never arrived, or of one whose
            \* answer was lost after the remote store applied it
            /\ \E applied \in BOOLEAN :
                 /\ remote' = IF applied THEN [remote EXCEPT ![tn] = upsert(@, c.batch)]
                              ELSE remote
                 /\ last' = [Step("push_upsert_error", s, lt, 0) EXCEPT
                               !.records = c.batch,
                               !.res = pushChanges_failed(c, tn).pushRes]
            /\ cyc' = [cyc EXCEPT ![s] = pushChanges_failed(c, tn)]
      /\ UNCHANGED << now, online, configured, local, localStorage,
                      syncTimeout, syncPromise, waiting, ready, rt, feed, used, via,
                  activeTimers, told, mc, peer >>

\* after a successful upsert: mark the uploaded ids synced
pushChanges_mark(s, order) ==
  LET c   == cyc[s]
      lt  == order[c.ti]
      res == [ count |-> Cardinality(DOMAIN c.batch), errors |-> << >> ]
  IN  /\ c.pc = "push_mark"
      /\ local' = [local EXCEPT ![lt] = markSynced(@, DOMAIN c.batch)]
      /\ told' = [told EXCEPT ![lt] =
                    @ \cup { i \in DOMAIN c.batch : local[lt][i] = c.batch[i] }]
      /\ cyc' = [cyc EXCEPT ![s] = [c EXCEPT !.pc = "pull_query", !.pushRes = res]]
      /\ last' = [Step("push_mark", s, lt, 0) EXCEPT !.records = c.batch, !.res = res]
      /\ UNCHANGED << now, online, configured, remote, localStorage,
                      syncTimeout, syncPromise, waiting, ready, rt, feed, used, ops, via,
                  activeTimers, mc, peer >>

\* pullChanges up to the answer of its query
pullChanges_query(s, order) ==
  LET c  == cyc[s]
      lt == order[c.ti]
      tn == tableMapping[lt]
      g  == getLastSyncTime(localStorage, tn, now)
      ff == owletFastForward(tn, g.ret, now)
  IN  /\ c.pc = "pull_query"
      /\ localStorage' = g.store
      /\ \/ /\ \E remoteRecords \in QueryResults(remote[tn], tn, g.ret, now) :
                 /\ cyc' = [cyc EXCEPT ![s] =
                              IF DOMAIN remoteRecords = {}
                              THEN FinishTable(c, order, NoResult)
                              ELSE [c EXCEPT !.pc = IF ff THEN "pull_bulkPut" ELSE "pull_get",
                                             !.ff = ff,
                                             !.fetched = remoteRecords,
                                             !.todo = DOMAIN remoteRecords,
                                             !.updated = 0]]
                 /\ last' = [Step("pull_query", s, lt, 0) EXCEPT
                               !.lastSync = g.ret, !.records = remoteRecords]
            /\ UNCHANGED ops
         \/ /\ ops > 0
            /\ ops' = ops - 1
            /\ cyc' = [cyc EXCEPT ![s] =
                         FinishTable(c, order, [ count |-> 0, errors |-> << PullError(tn) >> ])]
            /\ last' = [Step("pull_query_error", s, lt, 0) EXCEPT
                          !.lastSync = g.ret,
                          !.res = [ count |-> 0, errors |-> << PullError(tn) >> ]]
      /\ UNCHANGED << now, online, configured, local, remote,
                      syncTimeout, syncPromise, waiting, ready, rt, feed, used, via,
                  activeTimers, told, mc, peer >>

\* mutant of EndOfPull: the cursor moves only when a row was written
EndOfPull_ifUpdated(s, c, order, tn, updated) ==
  /\ localStorage' = IF updated > 0
                     THEN setLastSyncTime(localStorage, tn, MaxUpdatedAt(c.fetched), now)
                     ELSE localStorage
  /\ cyc' = [cyc EXCEPT ![s] = FinishTable(c, order, [ count |-> updated, errors |-> << >> ])]

\* the end of the merge loop: the cursor moves and pullChanges returns
EndOfPull(s, c, order, tn, updated) ==
  /\ localStorage' = setLastSyncTime(localStorage, tn, MaxUpdatedAt(c.fetched), now)
  /\ cyc' = [cyc EXCEPT ![s] = FinishTable(c, order, [ count |-> updated, errors |-> << >> ])]

\* one turn of the merge loop up to its put: read the local row and compare
pullChanges_get(s, order) ==
  LET c  == cyc[s]
      lt == order[c.ti]
      tn == tableMapping[lt]
  IN  /\ c.pc = "pull_get"
      /\ \E i \in c.todo :
           LET localRow == local[lt][i]
               remoteRow == c.fetched[i]
               rest == c.todo \ {i}
           IN  /\ IF mergeWrites(localRow, remoteRow)
                  THEN /\ cyc' = [cyc EXCEPT ![s] =
                                    [c EXCEPT !.pc = "pull_put", !.cur = i, !.rl = localRow]]
                       /\ UNCHANGED localStorage
                  ELSE IF rest = {}
                  THEN EndOfPull(s, c, order, tn, c.updated)
                  ELSE /\ cyc' = [cyc EXCEPT ![s] = [c EXCEPT !.todo = rest]]
                       /\ UNCHANGED localStorage
               /\ last' = [Step("pull_get", s, lt, i) EXCEPT
                             !.rec = remoteRow, !.rl = localRow, !.records = c.fetched]
      /\ UNCHANGED << now, online, configured, local, remote,
                      syncTimeout, syncPromise, waiting, ready, rt, feed, used, ops, via,
                  activeTimers, told, mc, peer >>

\* the put of the merge loop
pullChanges_put(s, order) ==
  LET c    == cyc[s]
      lt   == order[c.ti]
      tn   == tableMapping[lt]
      rest == c.todo \ {c.cur}
  IN  /\ c.pc = "pull_put"
      /\ local' = [local EXCEPT ![lt][c.cur] = AsSynced(c.fetched[c.cur])]
      /\ via' = [via EXCEPT ![lt][c.cur] = "pull"]
      /\ told' = Rewritten(lt, {c.cur})
      /\ IF rest = {}
         THEN EndOfPull(s, c, order, tn, c.updated + 1)
         ELSE /\ cyc' = [cyc EXCEPT ![s] =
                           [c EXCEPT !.pc = "pull_get", !.todo = rest, !.cur = 0,
                                     !.rl = NoRow, !.updated = c.updated + 1]]
              /\ UNCHANGED localStorage
      /\ last' = [Step("pull_put", s, lt, c.cur) EXCEPT
                    !.rec = c.fetched[c.cur], !.rl = c.rl, !.records = c.fetched]
      /\ UNCHANGED << now, online, configured, remote,
                      syncTimeout, syncPromise, waiting, ready, rt, feed, used, ops, activeTimers, mc, peer >>

\* fast-forward: one bulkPut of the fetched window, then the cursor
pullChanges_bulkPut(s, order) ==
  LET c  == cyc[s]
      lt == order[c.ti]
      tn == tableMapping[lt]
      records == [ i \in DOMAIN c.fetched |-> AsSynced(c.fetched[i]) ]
  IN  /\ c.pc = "pull_bulkPut"
      /\ local' = [local EXCEPT ![lt] = bulkPut(@, records)]
      /\ via' = [via EXCEPT ![lt] =
                   [ i \in DOMAIN @ |-> IF i \in DOMAIN records THEN "pull" ELSE @[i] ]]
      /\ told' = Rewritten(lt, DOMAIN records)
      /\ EndOfPull(s, c, order, tn, Cardinality(DOMAIN records))
      /\ last' = [Step("pull_bulkPut", s, lt, 0) EXCEPT !.records = c.fetched]
      /\ UNCHANGED << now, online, configured, remote,
                      syncTimeout, syncPromise, waiting, ready, rt, feed, used, ops, activeTimers, mc, peer >>

RECURSIVE AllErrors(_)
AllErrors(results) ==
  IF results = << >> THEN << >> ELSE Head(results).errors \o AllErrors(Tail(results))

RECURSIVE Total(_, _)
Total(results, field) ==
  IF results = << >> THEN 0
  ELSE (IF field = "pushed" THEN Head(results).pushed ELSE Head(results).pulled)
       + Total(Tail(results), field)

\* mutant of syncAll_return: lastGlobalSync is stamped whatever the errors
syncAll_return_stamps(s) ==
  LET c == cyc[s]
      allErrors == AllErrors(c.results)
      ret == [ success     |-> allErrors = << >>,
               totalPushed |-> Total(c.results, "pushed"),
               totalPulled |-> Total(c.results, "pulled"),
               errors      |-> allErrors ]
  IN  /\ c.pc = "return"
      /\ localStorage' = [localStorage EXCEPT !["lastGlobalSync"] = toString(now)]
      /\ cyc' = [cyc EXCEPT ![s] = IdleCycle]
      /\ syncPromise' = IF c.origin = "debounce" THEN 0 ELSE syncPromise
      /\ ready' = ready + waiting[s]
      /\ waiting' = [waiting EXCEPT ![s] = 0]
      /\ last' = [Step("syncAll_return", s, "", 0) EXCEPT !.ret = ret]
      /\ UNCHANGED << now, online, configured, local, remote,
                      syncTimeout, rt, feed, used, ops, via,
                      activeTimers, told, mc, peer >>

\* syncAll after the last table: aggregate, stamp lastGlobalSync, return
syncAll_return(s) ==
  LET c == cyc[s]
      allErrors == AllErrors(c.results)
      ret == [ success     |-> allErrors = << >>,
               totalPushed |-> Total(c.results, "pushed"),
               totalPulled |-> Total(c.results, "pulled"),
               errors      |-> allErrors ]
  IN  /\ c.pc = "return"
      /\ localStorage' = IF allErrors = << >>
                         THEN [localStorage EXCEPT !["lastGlobalSync"] = toString(now)]
                         ELSE localStorage
      /\ cyc' = [cyc EXCEPT ![s] = IdleCycle]
      \* the debounced caller's finally, and the callbacks awaiting its promise
      /\ syncPromise' = IF c.origin = "debounce" THEN 0 ELSE syncPromise
      /\ ready' = ready + waiting[s]
      /\ waiting' = [waiting EXCEPT ![s] = 0]
      /\ last' = [Step("syncAll_return", s, "", 0) EXCEPT !.ret = ret]
      /\ UNCHANGED << now, online, configured, local, remote,
                      syncTimeout, rt, feed, used, ops, via,
                  activeTimers, told, mc, peer >>

\* the positions of a cycle at which the next thing done is an operation on
\* the local store: toArray, modify, get, put, bulkPut
LocalStoreSteps == { "push_read", "push_mark", "pull_get", "pull_put", "pull_bulkPut" }

StoreError == << "local store error" >>

\* the errors the tables have returned so far in a cycle, and the push of
\* the table at hand
Collected(c) == AllErrors(c.results) \o c.pushRes.errors

\* syncAll's catch: the operation on the local store throws (it writes
\* nothing), pushChanges, pullChanges and syncTable let it through, and
\* syncAll returns the message of what was thrown; the totals are still 0
syncAll_catch(s, order) ==
  LET c == cyc[s]
      ret == [ success |-> FALSE, totalPushed |-> 0, totalPulled |-> 0,
               errors |-> << StoreError >> ]
  IN  /\ c.pc \in LocalStoreSteps
      /\ ops > 0
      /\ ops' = ops - 1
      /\ cyc' = [cyc EXCEPT ![s] = IdleCycle]
      /\ syncPromise' = IF c.origin = "debounce" THEN 0 ELSE syncPromise
      /\ ready' = ready + waiting[s]
      /\ waiting' = [waiting EXCEPT ![s] = 0]
      /\ last' = [Step("syncAll_catch", s, order[c.ti], 0) EXCEPT
                    !.ret = ret,
                    !.res = [ count |-> 0, errors |-> Collected(c) ]]
      /\ UNCHANGED << now, online, configured, local, remote, localStorage,
                      syncTimeout, rt, feed, used, via, activeTimers, told, mc, peer >>

----------------------------------------------------------------------------
(* Starting a cycle *)

NotConfiguredReturn ==
  [ success |-> TRUE, totalPushed |-> 0, totalPulled |-> 0,
    errors |-> << "Supabase not configured - running in offline-only mode" >> ]

OfflineReturn ==
  [ success |-> FALSE, totalPushed |-> 0, totalPulled |-> 0,
    errors |-> << "No network connection" >> ]

\* syncAll returns at once when not configured or offline
ReturnsAtOnce == ~configured \/ ~online

\* mutant of syncAll: the check of isSupabaseConfigured is left out
syncAll_unguarded(s, origin) ==
  /\ cyc[s].pc = "idle"
  /\ IF ~online
     THEN /\ last' = [Step("syncAll_return", 0, "", 0) EXCEPT !.ret = OfflineReturn]
          /\ UNCHANGED cyc
     ELSE /\ cyc' = [cyc EXCEPT ![s] =
                       [IdleCycle EXCEPT !.pc = "push_read", !.origin = origin, !.ti = 1]]
          /\ last' = Step("syncAll_start", s, "", 0)

\* syncAll up to its first await, called into slot s
syncAll(s, origin) ==
  /\ cyc[s].pc = "idle"
  /\ IF ~configured
     THEN /\ last' = [Step("syncAll_return", 0, "", 0) EXCEPT !.ret = NotConfiguredReturn]
          /\ UNCHANGED cyc
     ELSE IF ~online
     THEN /\ last' = [Step("syncAll_return", 0, "", 0) EXCEPT !.ret = OfflineReturn]
          /\ UNCHANGED cyc
     ELSE /\ cyc' = [cyc EXCEPT ![s] =
                       [IdleCycle EXCEPT !.pc = "push_read", !.origin = origin, !.ti = 1]]
          /\ last' = Step("syncAll_start", s, "", 0)

\* the slot a new invocation takes: the lowest idle one
FreeSlot(slots) ==
  IF \E s \in slots : cyc[s].pc = "idle"
  THEN { CHOOSE s \in slots : cyc[s].pc = "idle" /\ \A r \in slots : cyc[r].pc = "idle" => s <= r }
  ELSE {}

\* triggerSync: the value of "a timer is set" it leaves
triggerSync == IF ~configured \/ ~online THEN syncTimeout ELSE TRUE

\* the debounce timer fires: its callback up to its first await
TimerFire(slots) ==
  /\ syncTimeout
  /\ syncTimeout' = FALSE
  /\ IF syncPromise # 0
     THEN \* await syncPromise
          /\ waiting' = [waiting EXCEPT ![syncPromise] = @ + 1]
          /\ last' = Step("timer_wait", syncPromise, "", 0)
          /\ UNCHANGED << cyc, syncPromise >>
     ELSE /\ \E s \in FreeSlot(slots) :
                /\ syncAll(s, "debounce")
                /\ syncPromise' = IF ReturnsAtOnce THEN 0 ELSE s
          /\ UNCHANGED waiting
  /\ UNCHANGED << now, online, configured, local, remote, localStorage,
                  ready, rt, feed, used, ops, via,
                  activeTimers, told, mc, peer >>

\* a timer callback resumes after the promise it awaited has settled
TimerResume(slots) ==
  /\ ready > 0
  /\ ready' = ready - 1
  /\ \E s \in FreeSlot(slots) :
        /\ syncAll(s, "debounce")
        /\ syncPromise' = IF ReturnsAtOnce THEN 0 ELSE s
  /\ UNCHANGED << now, online, configured, local, remote, localStorage,
                  syncTimeout, waiting, rt, feed, used, ops, via,
                  activeTimers, told, mc, peer >>

\* setupAutoSync's handleSync (online event, visibility event, interval,
\* initial call) and the settings screen's manual sync: a bare syncAll() call
handleSync(slots) ==
  /\ \E s \in FreeSlot(slots) : syncAll(s, "direct")
  /\ UNCHANGED << now, online, configured, local, remote, localStorage,
                  syncTimeout, syncPromise, waiting, ready, rt, feed, used, ops, via,
                  activeTimers, told, mc, peer >>

----------------------------------------------------------------------------
(* The change feed.  One handler runs at a time. *)

NoHandler == [ t |-> "", id |-> 0, rec |-> NoRow ]

\* handleRealtimeChange on an INSERT or UPDATE event, up to its put.
\* The event carries the row as the remote table holds it.
handleRealtimeChange_get(lt, hasId, i) ==
  LET tn       == tableMapping[lt]
      record   == remote[tn][i]
      localRow == local[localTableMapping[tn]][i]
  IN  /\ configured
      /\ rt = NoHandler
      /\ Exists(record)
      /\ rt' = IF hasId /\ realtimeWrites(localRow, record)
               THEN [ t |-> lt, id |-> i, rec |-> record ]
               ELSE NoHandler
      /\ last' = [Step(IF hasId THEN "rt_get" ELSE "rt_noid", 0, lt, i) EXCEPT
                    !.rec = record, !.rl = localRow]
      /\ UNCHANGED << now, online, configured, local, remote, localStorage, cyc,
                      syncTimeout, syncPromise, waiting, ready, feed, used, ops, via,
                  activeTimers, told, mc, peer >>

\* its put
handleRealtimeChange_put ==
  /\ rt # NoHandler
  /\ local' = [local EXCEPT ![rt.t][rt.id] = AsSynced(rt.rec)]
  /\ via' = [via EXCEPT ![rt.t][rt.id] = "feed"]
  /\ told' = Rewritten(rt.t, {rt.id})
  /\ rt' = NoHandler
  /\ last' = [Step("rt_put", 0, rt.t, rt.id) EXCEPT !.rec = rt.rec]
  /\ UNCHANGED << now, online, configured, remote, localStorage, cyc,
                  syncTimeout, syncPromise, waiting, ready, feed, used, ops, activeTimers, mc, peer >>

\* handleRealtimeChange on a DELETE event
handleRealtimeChange_delete(lt, hasId, i) ==
  /\ configured
  /\ << lt, i >> \in feed
  /\ feed' = feed \ { << lt, i >> }
  /\ local' = [local EXCEPT ![lt] = realtimeDelete(@, hasId, i)]
  /\ via' = [via EXCEPT ![lt][i] = IF hasId THEN "" ELSE @]
  /\ told' = Rewritten(lt, IF hasId THEN {i} ELSE {})
  /\ last' = Step(IF hasId THEN "rt_delete" ELSE "rt_delete_noid", 0, lt, i)
  /\ UNCHANGED << now, online, configured, remote, localStorage, cyc,
                  syncTimeout, syncPromise, waiting, ready, rt, used, ops, activeTimers, mc, peer >>

----------------------------------------------------------------------------
(* Startup: initialSync and its mergeChildren, one action per request.     *)
(* mergeChildren looks at the answer of its reading requests only: an      *)
(* upsert or an update that fails leaves the run going on.                 *)

\* the remote tables mergeChildren re-assigns, in its order
dataTables ==
  << "sleep_sessions", "feeding_sessions", "pump_sessions", "diaper_changes",
     "owlet_readings" >>

\* History kept with the invocation: failed, whether a request of it was
\* answered with an error; start, the children its first request found
IdleMerge ==
  [ pc |-> "idle", s |-> 0, oldIds |-> {}, now |-> 0, createdAt |-> 0, k |-> 0,
    records |-> NoRecords, todo |-> {}, failed |-> FALSE,
    start |-> [ i \in ChildIds |-> NoRow ] ]

MergeFrame ==
  UNCHANGED << now, online, configured, local, localStorage, cyc, syncTimeout,
               syncPromise, waiting, ready, rt, feed, used, via, activeTimers, told, peer >>

\* initialSync up to its await of syncAll
initialSync(s) ==
  /\ mc.pc = "idle"
  /\ cyc[s].pc = "idle"
  /\ IF ~configured \/ ~online
     THEN /\ mc' = [mc EXCEPT !.pc = "returned"]
          /\ last' = Step("initialSync_return", 0, "", 0)
          /\ UNCHANGED cyc
     ELSE /\ syncAll(s, "initial")
          /\ mc' = [mc EXCEPT !.pc = "select", !.s = s]
  /\ UNCHANGED << now, online, configured, local, remote, localStorage, syncTimeout,
                  syncPromise, waiting, ready, rt, feed, used, ops, via,
                  activeTimers, told, peer >>

\* .from('children').select('*').eq('_deleted', false)
NotDeleted(rtbl) == { i \in DOMAIN rtbl : Exists(rtbl[i]) /\ ~rtbl[i]._deleted }

\* mergeChildren from its start to its first request for a data table: the
\* guard, the request for the children, the old ids, the child whose fields
\* the canonical record takes (the first of the answer that is not the
\* fixed one; the request asks for no order)
mergeChildren_select ==
  /\ mc.pc = "select"
  /\ cyc[mc.s].pc = "idle"
  /\ IF ~configured \/ ~online
     THEN /\ mc' = [mc EXCEPT !.pc = "returned"]
          /\ UNCHANGED ops
     ELSE \/ /\ ops > 0
             /\ ops' = ops - 1
             /\ mc' = [mc EXCEPT !.pc = "returned", !.failed = TRUE]
          \/ LET allChildren == NotDeleted(remote["children"])
                 oldIds == allChildren \ { DEFAULT_CHILD_ID }
             IN  /\ UNCHANGED ops
                 /\ IF oldIds = {}
                    THEN mc' = [mc EXCEPT !.pc = "returned"]
                    ELSE \E oldChild \in oldIds :
                           mc' = [mc EXCEPT
                                    !.pc = "fetch", !.k = 1,
                                    !.oldIds = oldIds,
                                    !.now = now,
                                    !.createdAt = remote["children"][oldChild].createdAt,
                                    !.start = remote["children"]]
  /\ last' = Step("mergeChildren_select", 0, "children", 0)
  /\ UNCHANGED remote
  /\ MergeFrame

\* the loop over dataTables goes on to the next table, or leaves
Continue(m) ==
  IF m.k < Len(dataTables)
  THEN [m EXCEPT !.pc = "fetch", !.k = @ + 1, !.records = NoRecords]
  ELSE [m EXCEPT !.pc = "canonical", !.records = NoRecords]

\* .select('*').in('childId', oldIds)
RecordsOf(rtbl, oldIds) ==
  Restrict(rtbl, { i \in DOMAIN rtbl : Exists(rtbl[i]) /\ rtbl[i].childId \in oldIds })

\* the request for the records of one data table and its answer
mergeChildren_fetch ==
  LET tn == dataTables[mc.k]
      records == RecordsOf(remote[tn], mc.oldIds)
  IN  /\ mc.pc = "fetch"
      /\ \/ /\ ops > 0
            /\ ops' = ops - 1
            /\ mc' = [Continue(mc) EXCEPT !.failed = TRUE]
         \/ /\ UNCHANGED ops
            /\ mc' = IF DOMAIN records = {}
                     THEN Continue(mc)
                     ELSE [mc EXCEPT !.pc = "upsert", !.records = records]
      /\ last' = Step("mergeChildren_fetch", 0, localTableMapping[tn], 0)
      /\ UNCHANGED remote
      /\ MergeFrame

\* records.map(r => ({ ...r, childId: DEFAULT_CHILD_ID, updatedAt: now }))
Reassigned(records, nowv) ==
  [ i \in DOMAIN records |->
      [records[i] EXCEPT !.childId = DEFAULT_CHILD_ID, !.updatedAt = nowv] ]

\* "childId" uuid NOT NULL REFERENCES public.children("id"): the remote
\* store takes rows of a data table only if it holds the child they name
ReferencesHold(children, records) ==
  \A i \in DOMAIN records : Exists(children[records[i].childId])

\* the upsert of the re-assigned records of one data table
mergeChildren_upsert ==
  LET tn == dataTables[mc.k]
      updated == Reassigned(mc.records, mc.now)
  IN  /\ mc.pc = "upsert"
      /\ \/ /\ ReferencesHold(remote["children"], updated)
            /\ remote' = [remote EXCEPT ![tn] = upsert(@, updated)]
            /\ mc' = Continue(mc)
            /\ UNCHANGED ops
         \/ /\ ~ReferencesHold(remote["children"], updated)
            /\ mc' = [Continue(mc) EXCEPT !.failed = TRUE]
            /\ UNCHANGED << remote, ops >>
         \/ /\ ops > 0
            /\ ops' = ops - 1
            /\ mc' = [Continue(mc) EXCEPT !.failed = TRUE]
            /\ UNCHANGED remote
      /\ last' = [Step("mergeChildren_upsert", 0, localTableMapping[tn], 0) EXCEPT
                    !.records = updated]
      /\ MergeFrame

\* the canonical child record: the fixed id, the old child's createdAt
CanonicalChild(createdAt, nowv) ==
  [ Row(nowv, "synced", FALSE, 0) EXCEPT !.createdAt = createdAt ]

\* the upsert of the canonical child record
mergeChildren_canonical ==
  /\ mc.pc = "canonical"
  /\ \/ /\ remote' = [remote EXCEPT !["children"][DEFAULT_CHILD_ID] =
                        CanonicalChild(mc.createdAt, mc.now)]
        /\ mc' = [mc EXCEPT !.pc = "update", !.todo = mc.oldIds]
        /\ UNCHANGED ops
     \/ /\ ops > 0
        /\ ops' = ops - 1
        /\ mc' = [mc EXCEPT !.pc = "update", !.todo = mc.oldIds, !.failed = TRUE]
        /\ UNCHANGED remote
  /\ last' = Step("mergeChildren_canonical", 0, "children", DEFAULT_CHILD_ID)
  /\ MergeFrame

\* .update({ _deleted: true, updatedAt: now }).eq('id', oldId)
softDelete(row, nowv) ==
  IF Exists(row) THEN [row EXCEPT !._deleted = TRUE, !.updatedAt = nowv] ELSE row

\* the update of one old child; after the last one, the final syncAll is
\* next
mergeChildren_update ==
  /\ mc.pc = "update"
  /\ \E oldId \in mc.todo :
       LET m == [mc EXCEPT !.todo = @ \ { oldId },
                           !.pc = IF mc.todo = { oldId } THEN "syncAll" ELSE "update"]
       IN  /\ \/ /\ remote' = [remote EXCEPT !["children"][oldId] = softDelete(@, mc.now)]
                 /\ mc' = m
                 /\ UNCHANGED ops
              \/ /\ ops > 0
                 /\ ops' = ops - 1
                 /\ mc' = [m EXCEPT !.failed = TRUE]
                 /\ UNCHANGED remote
           /\ last' = Step("mergeChildren_update", 0, "children", oldId)
  /\ MergeFrame

\* mergeChildren's final syncAll up to its first await; mergeChildren has
\* completed when that syncAll has returned
mergeChildren_syncAll(slots) ==
  /\ mc.pc = "syncAll"
  /\ \E s \in FreeSlot(slots) :
       /\ syncAll(s, "merge")
       /\ mc' = [mc EXCEPT !.pc = "final", !.s = s]
  /\ UNCHANGED << now, online, configured, local, remote, localStorage, syncTimeout,
                  syncPromise, waiting, ready, rt, feed, used, ops, via,
                  activeTimers, told, peer >>

----------------------------------------------------------------------------
(* The environment.  Every step of it spends one of the run's budget. *)

Spend == ops > 0 /\ ops' = ops - 1

\* uuidv4 ids carry no order: the model hands them out lowest first
IsFresh(lt, i) ==
  /\ i # DEFAULT_CHILD_ID
  /\ i \notin used[lt]
  /\ \A j \in TableIds(lt) \ { DEFAULT_CHILD_ID } : j < i => j \in used[lt]

\* the device clock advances to a later value of V
Tick(V) ==
  /\ Spend
  /\ \E t \in V : t > now /\ now' = t
  /\ last' = EnvStep
  /\ UNCHANGED << online, configured, local, remote, localStorage, cyc,
                  syncTimeout, syncPromise, waiting, ready, rt, feed, used, via,
                  activeTimers, told, mc, peer >>

\* the device clock, which ran ahead, is set back to an earlier value of V
ClockBack(V) ==
  /\ Spend
  /\ \E t \in V : t < now /\ now' = t
  /\ last' = EnvStep
  /\ UNCHANGED << online, configured, local, remote, localStorage, cyc,
                  syncTimeout, syncPromise, waiting, ready, rt, feed, used, via,
                  activeTimers, told, mc, peer >>

\* the network comes or goes
SetOnline ==
  /\ Spend
  /\ online' = ~online
  /\ last' = EnvStep
  /\ UNCHANGED << now, configured, local, remote, localStorage, cyc,
                  syncTimeout, syncPromise, waiting, ready, rt, feed, used, via,
                  activeTimers, told, mc, peer >>

LocalFrame ==
  UNCHANGED << now, online, configured, remote, localStorage, cyc,
               syncPromise, waiting, ready, rt, feed, mc, peer >>

\* startFeeding: a new session under a fresh id
startFeeding(i) ==
  /\ Spend
  /\ IsFresh("feedingSessions", i)
  /\ used' = [used EXCEPT !["feedingSessions"] = @ \cup {i}]
  /\ local' = [local EXCEPT !["feedingSessions"][i] = Row(now, "pending", FALSE, 0)]
  /\ via' = [via EXCEPT !["feedingSessions"][i] = "user"]
  /\ syncTimeout' = triggerSync
  /\ activeTimers' = [activeTimers EXCEPT !["feeding"] = i]
  /\ told' = Rewritten("feedingSessions", {i})
  /\ last' = Step("startFeeding", 0, "feedingSessions", i)
  /\ LocalFrame

\* stopFeeding, updateFeedingSession: Table.update with updatedAt and pending
updateFeedingSession(i) ==
  /\ Spend
  /\ Exists(local["feedingSessions"][i])
  /\ local' = [local EXCEPT !["feedingSessions"][i] =
                 [@ EXCEPT !.updatedAt = now, !.syncStatus = "pending"]]
  /\ via' = [via EXCEPT !["feedingSessions"][i] = "user"]
  /\ syncTimeout' = triggerSync
  /\ told' = Rewritten("feedingSessions", {i})
  /\ last' = Step("updateFeedingSession", 0, "feedingSessions", i)
  /\ UNCHANGED << used, activeTimers >>
  /\ LocalFrame

\* deleteFeedingSession: the soft delete
deleteFeedingSession(i) ==
  /\ Spend
  /\ Exists(local["feedingSessions"][i])
  /\ local' = [local EXCEPT !["feedingSessions"][i] =
                 [@ EXCEPT !._deleted = TRUE, !.updatedAt = now, !.syncStatus = "pending"]]
  /\ via' = [via EXCEPT !["feedingSessions"][i] = "user"]
  /\ syncTimeout' = triggerSync
  /\ told' = Rewritten("feedingSessions", {i})
  /\ last' = Step("deleteFeedingSession", 0, "feedingSessions", i)
  /\ UNCHANGED << used, activeTimers >>
  /\ LocalFrame

\* cancelFeeding: Table.delete
cancelFeeding(i) ==
  /\ Spend
  /\ Exists(local["feedingSessions"][i])
  /\ local' = [local EXCEPT !["feedingSessions"][i] = NoRow]
  /\ via' = [via EXCEPT !["feedingSessions"][i] = ""]
  /\ syncTimeout' = triggerSync
  /\ activeTimers' = [activeTimers EXCEPT !["feeding"] = 0]
  /\ told' = Rewritten("feedingSessions", {i})
  /\ last' = Step("cancelFeeding", 0, "feedingSessions", i)
  /\ UNCHANGED used
  /\ LocalFrame

\* startSleep's filter: the sessions that are open
openSessions(tbl) ==
  { i \in DOMAIN tbl : /\ Exists(tbl[i])
                       /\ ~tbl[i]._deleted /\ tbl[i].endTime = 0 /\ tbl[i].startTime > 0 }

\* mutant of mostRecent: the first open session in primary-key order
mostRecent_first(tbl, open) == CHOOSE m \in open : \A j \in open : m <= j

\* startSleep's reduce over a non-empty array in primary-key order: a later
\* session replaces the latest only if it started strictly later
mostRecent(tbl, open) ==
  CHOOSE m \in open :
    \A j \in open : \/ tbl[j].startTime < tbl[m].startTime
                    \/ (tbl[j].startTime = tbl[m].startTime /\ m <= j)

\* mutant of closeSessions: the sessions are ended and their stamp is kept
closeSessions_unstamped(tbl, toClose, mostRecentStart, nowv) ==
  [ i \in DOMAIN tbl |->
      IF i \in toClose
      THEN [tbl[i] EXCEPT !.endTime = Max(tbl[i].startTime + 1, mostRecentStart),
                          !.syncStatus = "pending"]
      ELSE tbl[i] ]

\* startSleep's bulkUpdate of the open sessions other than the most recent
closeSessions(tbl, toClose, mostRecentStart, nowv) ==
  [ i \in DOMAIN tbl |->
      IF i \in toClose
      THEN [tbl[i] EXCEPT !.endTime = Max(tbl[i].startTime + 1, mostRecentStart),
                          !.updatedAt = nowv,
                          !.syncStatus = "pending"]
      ELSE tbl[i] ]

\* startSleep: with a session open, that session is reused, the other open
\* sessions are closed and the timer is pointed at it (i: the session it
\* returns); with none open, a new session under the fresh id i
startSleep(i) ==
  LET tbl  == local["sleepSessions"]
      open == openSessions(tbl)
  IN  /\ Spend
      /\ IF open # {}
         THEN LET latest  == mostRecent(tbl, open)
                  toClose == open \ { latest }
              IN  /\ i = latest
                  /\ local' = [local EXCEPT !["sleepSessions"] =
                                 closeSessions(@, toClose, tbl[latest].startTime, now)]
                  /\ via' = [via EXCEPT !["sleepSessions"] =
                               [ j \in DOMAIN @ |-> IF j \in toClose THEN "user" ELSE @[j] ]]
                  /\ told' = Rewritten("sleepSessions", toClose)
                  /\ syncTimeout' = IF toClose # {} THEN triggerSync ELSE syncTimeout
                  /\ UNCHANGED used
         ELSE /\ IsFresh("sleepSessions", i)
              /\ used' = [used EXCEPT !["sleepSessions"] = @ \cup {i}]
              /\ local' = [local EXCEPT !["sleepSessions"][i] = Row(now, "pending", FALSE, 0)]
              /\ via' = [via EXCEPT !["sleepSessions"][i] = "user"]
              /\ told' = Rewritten("sleepSessions", {i})
              /\ UNCHANGED syncTimeout
      /\ activeTimers' = [activeTimers EXCEPT !["sleep"] = i]
      /\ last' = Step("startSleep", 0, "sleepSessions", i)
      /\ LocalFrame

\* stopSleep: Table.update with endTime, updatedAt and pending; the timer is
\* cleared
stopSleep(i) ==
  /\ Spend
  /\ Exists(local["sleepSessions"][i])
  /\ local' = [local EXCEPT !["sleepSessions"][i] =
                 [@ EXCEPT !.endTime = now, !.updatedAt = now, !.syncStatus = "pending"]]
  /\ via' = [via EXCEPT !["sleepSessions"][i] = "user"]
  /\ told' = Rewritten("sleepSessions", {i})
  /\ activeTimers' = [activeTimers EXCEPT !["sleep"] = 0]
  /\ syncTimeout' = triggerSync
  /\ last' = Step("stopSleep", 0, "sleepSessions", i)
  /\ UNCHANGED used
  /\ LocalFrame

\* deleteSleepSession: the soft delete
deleteSleepSession(i) ==
  /\ Spend
  /\ Exists(local["sleepSessions"][i])
  /\ local' = [local EXCEPT !["sleepSessions"][i] =
                 [@ EXCEPT !._deleted = TRUE, !.updatedAt = now, !.syncStatus = "pending"]]
  /\ via' = [via EXCEPT !["sleepSessions"][i] = "user"]
  /\ told' = Rewritten("sleepSessions", {i})
  /\ syncTimeout' = triggerSync
  /\ last' = Step("deleteSleepSession", 0, "sleepSessions", i)
  /\ UNCHANGED << used, activeTimers >>
  /\ LocalFrame

\* ingestOwletReading: a new reading under a fresh id, recorded at a time of R
ingestOwletReading(i, R) ==
  /\ Spend
  /\ IsFresh("owletReadings", i)
  /\ used' = [used EXCEPT !["owletReadings"] = @ \cup {i}]
  /\ \E recordedAt \in R :
       local' = [local EXCEPT !["owletReadings"][i] = Row(now, "pending", FALSE, recordedAt)]
  /\ via' = [via EXCEPT !["owletReadings"][i] = "user"]
  /\ syncTimeout' = triggerSync
  /\ told' = Rewritten("owletReadings", {i})
  /\ last' = Step("ingestOwletReading", 0, "owletReadings", i)
  /\ UNCHANGED activeTimers
  /\ LocalFrame

\* useCurrentChild: children.find(c => !c._deleted) over db.children.toArray(),
\* which lists by id; the fixed id sorts before the random ones
useCurrentChild(tbl) ==
  LET live == NotDeleted(tbl)
  IN  IF live = {} THEN {}
      ELSE { CHOOSE i \in live : \A j \in live : i <= j }

\* handleSaveChild of the settings screen: the child shown is updated; no
\* triggerSync
handleSaveChild ==
  /\ Spend
  /\ \E i \in useCurrentChild(local["children"]) :
       /\ local' = [local EXCEPT !["children"][i] =
                      [@ EXCEPT !.updatedAt = now, !.syncStatus = "pending"]]
       /\ via' = [via EXCEPT !["children"][i] = "user"]
       /\ told' = Rewritten("children", {i})
       /\ last' = Step("handleSaveChild", 0, "children", i)
  /\ UNCHANGED << used, activeTimers, syncTimeout >>
  /\ LocalFrame

\* the tables getOrCreateDefaultChild re-assigns
migratedTables == { "sleepSessions", "feedingSessions", "pumpSessions", "diaperChanges" }

\* table.where('childId').anyOf(oldIds), and for each record
\* table.update(record.id, { childId, updatedAt: now, syncStatus: 'pending' })
reassign(tbl, oldIds, nowv) ==
  [ i \in DOMAIN tbl |->
      IF Exists(tbl[i]) /\ tbl[i].childId \in oldIds
      THEN [tbl[i] EXCEPT !.childId = DEFAULT_CHILD_ID, !.updatedAt = nowv,
                          !.syncStatus = "pending"]
      ELSE tbl[i] ]

\* the local tables getOrCreateDefaultChild leaves (toArray lists the
\* children by id: oldChildren[0] is the one of the lowest id)
defaultChild(loc, nowv) ==
  LET existing == loc["children"][DEFAULT_CHILD_ID]
      oldIds   == NotDeleted(loc["children"]) \ { DEFAULT_CHILD_ID }
      oldChild == CHOOSE i \in oldIds : \A j \in oldIds : i <= j
      child(createdAt) == [Row(nowv, "pending", FALSE, 0) EXCEPT !.createdAt = createdAt]
  IN  IF Exists(existing) /\ ~existing._deleted THEN loc
      ELSE IF oldIds # {}
      THEN [ lt \in DOMAIN loc |->
               IF lt \in migratedTables THEN reassign(loc[lt], oldIds, nowv)
               ELSE IF lt = "children"
               THEN [ i \in DOMAIN loc[lt] |->
                        IF i = DEFAULT_CHILD_ID THEN child(loc[lt][oldChild].createdAt)
                        ELSE IF i \in oldIds
                        THEN [loc[lt][i] EXCEPT !._deleted = TRUE, !.updatedAt = nowv,
                                                !.syncStatus = "pending"]
                        ELSE loc[lt][i] ]
               ELSE loc[lt] ]
      ELSE [loc EXCEPT !["children"][DEFAULT_CHILD_ID] = child(nowv)]

\* getOrCreateDefaultChild, called when the history screen is mounted; no
\* triggerSync
getOrCreateDefaultChild ==
  LET after == defaultChild(local, now)
      written(lt) == { i \in DOMAIN local[lt] : after[lt][i] # local[lt][i] }
  IN  /\ local' = after
      /\ via' = [ lt \in DOMAIN via |->
                   [ i \in DOMAIN via[lt] |->
                       IF i \in written(lt) THEN "user" ELSE via[lt][i] ] ]
      /\ told' = [ lt \in DOMAIN told |-> told[lt] \ written(lt) ]
      /\ last' = Step("getOrCreateDefaultChild", 0, "children", DEFAULT_CHILD_ID)
      /\ UNCHANGED << used, activeTimers, syncTimeout, ops >>
      /\ LocalFrame

\* Another device's push (or the Owlet bridge) upserts a row of Rows: a new
\* row under a fresh id, or a new version of a row the remote store holds.
RemoteUpsert(lt, i, Rows) ==
  LET tn == tableMapping[lt]
  IN  /\ Spend
      /\ Exists(remote[tn][i]) \/ IsFresh(lt, i)
      /\ used' = [used EXCEPT ![lt] = @ \cup {i}]
      /\ \E row \in Rows : remote' = [remote EXCEPT ![tn][i] = row]
      /\ last' = EnvStep
      /\ UNCHANGED << now, online, configured, local, localStorage, cyc,
                      syncTimeout, syncPromise, waiting, ready, rt, feed, via,
                  activeTimers, told, mc, peer >>

\* A row is removed from a remote table (not by this program: it never
\* deletes remote rows); the change feed will report it.
RemoteDelete(lt, i) ==
  LET tn == tableMapping[lt]
  IN  /\ Spend
      /\ Exists(remote[tn][i])
      /\ remote' = [remote EXCEPT ![tn][i] = NoRow]
      /\ feed' = feed \cup { << lt, i >> }
      /\ last' = EnvStep
      /\ UNCHANGED << now, online, configured, local, localStorage, cyc,
                      syncTimeout, syncPromise, waiting, ready, rt, used, via,
                  activeTimers, told, mc, peer >>

\* The second device runs the same program on its own table and storage
\* (mutated: history, whether its user has updated a session).
\* Its updateFeedingSession:
peer_updateFeedingSession(i) ==
  /\ Spend
  /\ Exists(peer.tbl[i])
  /\ peer' = [peer EXCEPT !.tbl[i] = [@ EXCEPT !.updatedAt = now, !.syncStatus = "pending"],
                          !.mutated = TRUE]
  /\ last' = Step("peer_updateFeedingSession", 0, "feedingSessions", i)
  /\ UNCHANGED << now, online, configured, local, remote, localStorage, cyc,
                  syncTimeout, syncPromise, waiting, ready, rt, feed, used, via,
                  activeTimers, told, mc >>

\* Its syncTable of feedingSessions, every request of which is answered
\* without error: pushChanges, then pullChanges.  No step of the first
\* device falls between its requests.
peer_syncTable ==
  LET tn == "feeding_sessions"
      pendingRecords == PendingRecords(peer.tbl)
      pushed  == upsert(remote[tn], pendingRecords)
      marked  == markSynced(peer.tbl, DOMAIN pendingRecords)
      got     == getLastSyncTime(peer.store, tn, now)
  IN  /\ \E remoteRecords \in QueryResults(pushed, tn, got.ret, now) :
           peer' = [ mutated |-> peer.mutated,
                     tbl |-> [ i \in DOMAIN marked |->
                                 IF i \in DOMAIN remoteRecords
                                    /\ mergeWrites(marked[i], remoteRecords[i])
                                 THEN AsSynced(remoteRecords[i]) ELSE marked[i] ],
                     store |-> IF DOMAIN remoteRecords = {} THEN got.store
                               ELSE setLastSyncTime(got.store, tn,
                                                    MaxUpdatedAt(remoteRecords), now) ]
      /\ remote' = [remote EXCEPT ![tn] = pushed]
      /\ last' = Step("peer_syncTable", 0, "feedingSessions", 0)
      /\ UNCHANGED << now, online, configured, local, localStorage, cyc,
                      syncTimeout, syncPromise, waiting, ready, rt, feed, used, ops, via,
                      activeTimers, told, mc >>

----------------------------------------------------------------------------
(* Specifications *)

Slots == 1..MaxCycles

\* a fresh install, online, the clock at a value of V, with budget
\* environment steps; C: whether the build carries Supabase credentials
InitAt(V, budget, C) ==
  /\ now \in V
  /\ online = TRUE
  /\ configured \in C
  /\ local = [ lt \in LocalTables |-> [ i \in TableIds(lt) |-> NoRow ] ]
  /\ remote = [ tn \in TableName |-> [ i \in TableIds(localTableMapping[tn]) |-> NoRow ] ]
  /\ localStorage = [ k \in StorageKeys |-> Null ]
  /\ cyc = [ s \in Slots |-> IdleCycle ]
  /\ syncTimeout = FALSE
  /\ syncPromise = 0
  /\ waiting = [ s \in Slots |-> 0 ]
  /\ ready = 0
  /\ rt = NoHandler
  /\ feed = {}
  /\ used = [ lt \in LocalTables |-> {} ]
  /\ ops = budget
  /\ via = [ lt \in LocalTables |-> [ i \in TableIds(lt) |-> "" ] ]
  /\ activeTimers = [ t \in TimerIds |-> 0 ]
  /\ told = [ lt \in LocalTables |-> {} ]
  /\ mc = IdleMerge
  /\ peer = [ tbl |-> EmptyTable, store |-> [ k \in StorageKeys |-> Null ],
               mutated |-> FALSE ]
  /\ last = Step("init", 0, "", 0)

FeedingOrder == << "feedingSessions" >>

\* two instants are enough to order two timestamps every way
MergeClock == { 100000, 100003 }

\* the rows another device may upload to feeding_sessions
FeedingRows == { Row(u, "pending", d, 0) : u \in MergeClock, d \in BOOLEAN }

----------------------------------------------------------------------------
(* SpecPush: one cycle at a time pushes and pulls feedingSessions while    *)
(* the user starts, updates, deletes and cancels sessions; upserts and     *)
(* queries may fail.                                                       *)

NextPush ==
  \/ handleSync({1})
  \/ pushChanges_read(1, FeedingOrder)
  \/ pushChanges_upsert(1, FeedingOrder)
  \/ pushChanges_mark(1, FeedingOrder)
  \/ pullChanges_query(1, FeedingOrder)
  \/ pullChanges_get(1, FeedingOrder)
  \/ pullChanges_put(1, FeedingOrder)
  \/ syncAll_return(1)
  \/ \E i \in Ids : startFeeding(i)
  \/ \E i \in Ids : updateFeedingSession(i)
  \/ \E i \in Ids : deleteFeedingSession(i)
  \/ \E i \in Ids : cancelFeeding(i)
  \/ Tick(MergeClock)

SpecPush == InitAt({ 100000 }, MaxPushOps, { TRUE }) /\ [][NextPush]_vars

----------------------------------------------------------------------------
(* SpecMerge: one cycle at a time pulls feedingSessions and the change     *)
(* feed delivers events while another device writes and removes remote     *)
(* rows and the user starts sessions.                                      *)

NextMerge ==
  \/ handleSync({1})
  \/ pushChanges_read(1, FeedingOrder)
  \/ pushChanges_upsert(1, FeedingOrder)
  \/ pushChanges_mark(1, FeedingOrder)
  \/ pullChanges_query(1, FeedingOrder)
  \/ pullChanges_get(1, FeedingOrder)
  \/ pullChanges_put(1, FeedingOrder)
  \/ syncAll_return(1)
  \/ \E i \in Ids : startFeeding(i)
  \/ \E i \in Ids : RemoteUpsert("feedingSessions", i, FeedingRows)
  \/ \E i \in Ids : RemoteDelete("feedingSessions", i)
  \/ \E hasId \in BOOLEAN, i \in Ids : handleRealtimeChange_get("feedingSessions", hasId, i)
  \/ handleRealtimeChange_put
  \/ \E hasId \in BOOLEAN, i \in Ids : handleRealtimeChange_delete("feedingSessions", hasId, i)

SpecMerge == InitAt({ 100000 }, MaxOps, { TRUE }) /\ [][NextMerge]_vars

----------------------------------------------------------------------------
(* SpecCursor: one cycle at a time pulls feedingSessions while another     *)
(* device uploads rows and the device clock advances past the 30-day       *)
(* backstop.                                                               *)

\* an instant, the instant 30 days later, and the minute after that
CursorClock == { 100000, 100000 + BACKSTOP_MS, 100001 + BACKSTOP_MS }

\* rows stamped at the first instant and three minutes after it
CursorRows == { Row(u, "pending", FALSE, 0) : u \in MergeClock }

NextCursor ==
  \/ handleSync({1})
  \/ pushChanges_read(1, FeedingOrder)
  \/ pullChanges_query(1, FeedingOrder)
  \/ pullChanges_get(1, FeedingOrder)
  \/ pullChanges_put(1, FeedingOrder)
  \/ syncAll_return(1)
  \/ Tick(CursorClock)
  \/ \E i \in Ids : RemoteUpsert("feedingSessions", i, CursorRows)

SpecCursor == InitAt({ 100000 }, MaxCursorOps, { TRUE }) /\ [][NextCursor]_vars

----------------------------------------------------------------------------
(* SpecReset: one cycle at a time pulls feedingSessions and owletReadings  *)
(* while rows arrive in both remote tables and the device clock, which ran *)
(* ahead, is set back.                                                     *)

ResetOrder == << "feedingSessions", "owletReadings" >>

\* an instant, and the instants 5 and 6 minutes later
ResetClock == { 100000, 100000 + FUTURE_TOLERANCE_MS, 100001 + FUTURE_TOLERANCE_MS }

ResetRows == { Row(u, "pending", FALSE, 0) : u \in ResetClock \ { 100000 } }

\* a reading recorded as it is written, and one recorded long before
ResetReadings ==
  { Row(100001 + FUTURE_TOLERANCE_MS, "synced", FALSE, r) :
      r \in { 100001 + FUTURE_TOLERANCE_MS, 100000 - 1000 } }

NextReset ==
  \/ handleSync({1})
  \/ pushChanges_read(1, ResetOrder)
  \/ pullChanges_query(1, ResetOrder)
  \/ pullChanges_get(1, ResetOrder)
  \/ pullChanges_put(1, ResetOrder)
  \/ pullChanges_bulkPut(1, ResetOrder)
  \/ syncAll_return(1)
  \/ ClockBack(ResetClock)
  \/ \E i \in Ids : RemoteUpsert("feedingSessions", i, ResetRows)
  \/ \E i \in Ids : RemoteUpsert("owletReadings", i, ResetReadings)

SpecReset == InitAt(ResetClock, MaxCursorOps, { TRUE }) /\ [][NextReset]_vars

----------------------------------------------------------------------------
(* SpecTelemetry: one cycle at a time pulls owletReadings while the bridge *)
(* writes readings and the device clock advances past the fast-forward     *)
(* threshold.                                                              *)

TelemetryOrder == << "owletReadings" >>

\* an instant, and the instants 3 and 4 minutes later
TelemetryClock ==
  { 100000, 100000 + OWLET_FAST_FORWARD_AFTER_MS, 100001 + OWLET_FAST_FORWARD_AFTER_MS }

\* readings written at the first or the last instant, recorded at the first
\* instant or long before the window
TelemetryReadings ==
  { Row(u, "synced", FALSE, r) :
      u \in { 100000, 100001 + OWLET_FAST_FORWARD_AFTER_MS },
      r \in { 100000, 100000 - 1000 } }

NextTelemetry ==
  \/ handleSync({1})
  \/ pushChanges_read(1, TelemetryOrder)
  \/ pullChanges_query(1, TelemetryOrder)
  \/ pullChanges_get(1, TelemetryOrder)
  \/ pullChanges_put(1, TelemetryOrder)
  \/ pullChanges_bulkPut(1, TelemetryOrder)
  \/ syncAll_return(1)
  \/ Tick(TelemetryClock)
  \/ \E i \in Ids : RemoteUpsert("owletReadings", i, TelemetryReadings)

SpecTelemetry == InitAt({ 100000 }, MaxCursorOps, { TRUE }) /\ [][NextTelemetry]_vars

----------------------------------------------------------------------------
(* SpecLocal: the mutation API on sleep and feeding sessions, configured   *)
(* or not, while the network comes and goes, the clock advances, and the   *)
(* change feed delivers the sleep sessions another device starts.          *)

\* an instant and a later one
LocalClock == { 100000, 100003 }

\* the sessions another device starts
SleepRows == { Row(u, "pending", FALSE, 0) : u \in LocalClock }

NextLocal ==
  \/ \E i \in SleepIds : startSleep(i)
  \/ \E i \in SleepIds : stopSleep(i)
  \/ \E i \in SleepIds : deleteSleepSession(i)
  \/ \E i \in Ids : startFeeding(i)
  \/ \E i \in Ids : updateFeedingSession(i)
  \/ \E i \in Ids : deleteFeedingSession(i)
  \/ \E i \in SleepIds : RemoteUpsert("sleepSessions", i, SleepRows)
  \/ \E i \in SleepIds : handleRealtimeChange_get("sleepSessions", TRUE, i)
  \/ handleRealtimeChange_put
  \/ SetOnline
  \/ Tick(LocalClock)

SpecLocal == InitAt({ 100000 }, MaxLocalOps, BOOLEAN) /\ [][NextLocal]_vars

----------------------------------------------------------------------------
(* SpecUnconfigured: a build with or without Supabase credentials; every   *)
(* entry of the sync layer is called, one cycle at a time, while the user  *)
(* starts and updates sessions and another device uploads sessions.        *)

NextUnconfigured ==
  \/ TimerFire({1})
  \/ TimerResume({1})
  \/ handleSync({1})
  \/ pushChanges_read(1, FeedingOrder)
  \/ pushChanges_upsert(1, FeedingOrder)
  \/ pushChanges_mark(1, FeedingOrder)
  \/ pullChanges_query(1, FeedingOrder)
  \/ pullChanges_get(1, FeedingOrder)
  \/ pullChanges_put(1, FeedingOrder)
  \/ syncAll_return(1)
  \/ \E i \in Ids : startFeeding(i)
  \/ \E i \in Ids : updateFeedingSession(i)
  \/ \E i \in Ids : RemoteUpsert("feedingSessions", i, FeedingRows)
  \/ \E i \in Ids : handleRealtimeChange_get("feedingSessions", TRUE, i)
  \/ handleRealtimeChange_put

SpecUnconfigured == InitAt({ 100000 }, MaxOps, BOOLEAN) /\ [][NextUnconfigured]_vars

----------------------------------------------------------------------------
(* SpecOrder: one cycle at a time goes through every table of syncAll      *)
(* while the user starts feedings, readings are ingested and another       *)
(* device uploads children; upserts and queries may fail.                  *)

\* the rows another device may upload to children
ChildRows == { Row(u, "pending", d, 0) : u \in MergeClock, d \in BOOLEAN }

NextOrder ==
  \/ handleSync({1})
  \/ pushChanges_read(1, SyncOrder)
  \/ pushChanges_upsert(1, SyncOrder)
  \/ pushChanges_mark(1, SyncOrder)
  \/ pullChanges_query(1, SyncOrder)
  \/ pullChanges_get(1, SyncOrder)
  \/ pullChanges_put(1, SyncOrder)
  \/ pullChanges_bulkPut(1, SyncOrder)
  \/ syncAll_return(1)
  \/ \E i \in Ids : startFeeding(i)
  \/ \E i \in Ids : ingestOwletReading(i, { 100000 })
  \/ \E i \in Ids : RemoteUpsert("children", i, ChildRows)

SpecOrder == InitAt({ 100000 }, MaxOps, { TRUE }) /\ [][NextOrder]_vars

----------------------------------------------------------------------------
(* SpecMergeChildren: a start of the app on a remote store that other      *)
(* devices have filled with children of random ids and with their          *)
(* records.  Before the start: the session before it.  The screens come up *)
(* when initialSync has returned, and the other devices are quiet while    *)
(* this one starts.                                                        *)

MaxMergeOps == 3

\* the tables of these cycles; the fast-forward pull (bulkPut) is taken
\* for owletReadings only, which is not among them
MergeOrder == << "children", "feedingSessions", "growthMeasurements" >>

\* rows of a data table that belong to a child of a random id
RecordsOfOldChildren ==
  { [ Row(99990, "synced", FALSE, 0) EXCEPT !.childId = c ] : c \in Ids }

\* the stamps of rows other devices made: before this device's clock, and
\* ahead of it (the clocks of two devices differ)
OtherClock == { 99990, 100003 }

\* children of random ids, as the versions before the fixed id made them
OldChildRows == { Row(u, "synced", FALSE, 0) : u \in OtherClock }

\* another device uploads a record of a child the remote store holds
UploadRecord(lt, i) ==
  RemoteUpsert(lt, i, { r \in RecordsOfOldChildren : Exists(remote["children"][r.childId]) })

NextMergeChildren ==
  \/ initialSync(1)
  \/ mergeChildren_select
  \/ mergeChildren_fetch
  \/ mergeChildren_upsert
  \/ mergeChildren_canonical
  \/ mergeChildren_update
  \/ mergeChildren_syncAll({1})
  \/ pushChanges_read(1, MergeOrder)
  \/ pushChanges_upsert(1, MergeOrder)
  \/ pushChanges_mark(1, MergeOrder)
  \/ pullChanges_query(1, MergeOrder)
  \/ pullChanges_get(1, MergeOrder)
  \/ pullChanges_put(1, MergeOrder)
  \/ syncAll_return(1)
  \/ (mc.pc = "idle" /\ handleSync({1}))
  \/ (mc.pc = "idle" /\ handleSaveChild)
  \/ (mc.pc = "idle" /\ \E i \in Ids : RemoteUpsert("children", i, OldChildRows))
  \/ (mc.pc = "idle" /\ \E i \in Ids : UploadRecord("feedingSessions", i))
  \/ (mc.pc = "idle" /\ \E i \in Ids : UploadRecord("growthMeasurements", i))

SpecMergeChildren == InitAt({ 100000 }, MaxMergeOps, { TRUE }) /\ [][NextMergeChildren]_vars

----------------------------------------------------------------------------
(* SpecCanonical: SpecMergeChildren on a device whose History screen has   *)
(* called getOrCreateDefaultChild before the app is started again: the     *)
(* canonical child is in the local table, pending, and the syncAll of      *)
(* initialSync uploads it before mergeChildren asks for the children.      *)

NextCanonical ==
  \/ NextMergeChildren
  \/ (mc.pc = "idle" /\ getOrCreateDefaultChild)

SpecCanonical == InitAt({ 100000 }, MaxMergeOps, { TRUE }) /\ [][NextCanonical]_vars

----------------------------------------------------------------------------
(* SpecFrame: everything that runs beside the pulls: a session in which    *)
(* the user starts feedings, the change feed delivers the children and the *)
(* feedings other devices upload and cycles push and pull, then a start of *)
(* the app with its mergeChildren.                                        *)

NextFrame ==
  \/ initialSync(1)
  \/ mergeChildren_select
  \/ mergeChildren_fetch
  \/ mergeChildren_upsert
  \/ mergeChildren_canonical
  \/ mergeChildren_update
  \/ mergeChildren_syncAll({1})
  \/ pushChanges_read(1, MergeOrder)
  \/ pushChanges_upsert(1, MergeOrder)
  \/ pushChanges_mark(1, MergeOrder)
  \/ pullChanges_query(1, MergeOrder)
  \/ pullChanges_get(1, MergeOrder)
  \/ pullChanges_put(1, MergeOrder)
  \/ syncAll_return(1)
  \/ (mc.pc = "idle" /\ handleSync({1}))
  \/ (mc.pc = "idle" /\ \E i \in Ids : startFeeding(i))
  \/ (mc.pc = "idle" /\ \E i \in Ids : RemoteUpsert("children", i, OldChildRows))
  \/ (mc.pc = "idle" /\ \E i \in Ids : UploadRecord("feedingSessions", i))
  \/ (mc.pc = "idle" /\ \E lt \in { "children", "feedingSessions" } :
                          \E i \in Ids : handleRealtimeChange_get(lt, TRUE, i))
  \/ handleRealtimeChange_put

SpecFrame == InitAt({ 100000 }, MaxOps, { TRUE }) /\ [][NextFrame]_vars

----------------------------------------------------------------------------
(* SpecConverge: two devices update the same feeding session and run       *)
(* cycles in which every request succeeds; the first device's user acts    *)
(* between two cycles.                                                     *)
(* Each device starts a cycle every 10 seconds (the interval of            *)
(* setupAutoSync) and every request is answered in the end: the steps of   *)
(* the first device's cycles and the second device's syncTable are taken   *)
(* again and again.                                                        *)

\* a step of a cycle in which no request fails (a failing request spends
\* one of ops)
CycleStep ==
  /\ ops' = ops
  /\ \/ handleSync({1})
     \/ pushChanges_read(1, FeedingOrder)
     \/ pushChanges_upsert(1, FeedingOrder)
     \/ pushChanges_mark(1, FeedingOrder)
     \/ pullChanges_query(1, FeedingOrder)
     \/ pullChanges_get(1, FeedingOrder)
     \/ pullChanges_put(1, FeedingOrder)
     \/ syncAll_return(1)

NextConverge ==
  \/ CycleStep
  \/ peer_syncTable
  \/ (cyc[1].pc = "idle" /\ \E i \in Ids : startFeeding(i))
  \/ (cyc[1].pc = "idle" /\ \E i \in Ids : updateFeedingSession(i))
  \/ \E i \in Ids : peer_updateFeedingSession(i)
  \/ Tick(MergeClock)

SpecConverge ==
  /\ InitAt({ 100000 }, MaxLocalOps, { TRUE })
  /\ [][NextConverge]_vars
  /\ WF_vars(CycleStep)
  /\ WF_vars(peer_syncTable)

----------------------------------------------------------------------------
(* SpecUpload: one device alone.  The user starts, updates and cancels     *)
(* feedings,                                                               *)
(* the network comes and goes, requests may fail, and the triggers of      *)
(* setupAutoSync keep firing: the interval calls handleSync every 10       *)
(* seconds and every request is answered in the end, so the steps of a     *)
(* cycle are taken again and again.                                        *)

UploadStep ==
  \/ handleSync({1})
  \/ pushChanges_read(1, FeedingOrder)
  \/ pushChanges_upsert(1, FeedingOrder)
  \/ pushChanges_mark(1, FeedingOrder)
  \/ pullChanges_query(1, FeedingOrder)
  \/ pullChanges_get(1, FeedingOrder)
  \/ pullChanges_put(1, FeedingOrder)
  \/ syncAll_return(1)

NextUpload ==
  \/ UploadStep
  \/ \E i \in Ids : startFeeding(i)
  \/ \E i \in Ids : updateFeedingSession(i)
  \/ \E i \in Ids : cancelFeeding(i)
  \/ SetOnline
  \/ Tick(MergeClock)

SpecUpload ==
  /\ InitAt({ 100000 }, MaxLocalOps, { TRUE })
  /\ [][NextUpload]_vars
  /\ WF_vars(UploadStep)

----------------------------------------------------------------------------
(* SpecDefaultChild: the history screen is mounted, again and again, on a  *)
(* device that pulls the children other devices have created and the      *)
(* feedings and growth measurements recorded for them.                     *)

NextDefaultChild ==
  \/ getOrCreateDefaultChild
  \/ handleSync({1})
  \/ pushChanges_read(1, MergeOrder)
  \/ pushChanges_upsert(1, MergeOrder)
  \/ pushChanges_mark(1, MergeOrder)
  \/ pullChanges_query(1, MergeOrder)
  \/ pullChanges_get(1, MergeOrder)
  \/ pullChanges_put(1, MergeOrder)
  \/ syncAll_return(1)
  \/ \E i \in Ids : RemoteUpsert("children", i, OldChildRows)
  \/ \E i \in Ids : UploadRecord("feedingSessions", i)
  \/ \E i \in Ids : UploadRecord("growthMeasurements", i)

SpecDefaultChild == InitAt({ 100000 }, MaxMergeOps, { TRUE }) /\ [][NextDefaultChild]_vars

----------------------------------------------------------------------------
(* SpecCatch: cycles in which requests fail and operations on the local    *)
(* store throw, in a build with or without Supabase credentials, while the *)
(* network comes and goes.                                                 *)

NextCatch ==
  \/ handleSync({1})
  \/ pushChanges_read(1, MergeOrder)
  \/ pushChanges_upsert(1, MergeOrder)
  \/ pushChanges_mark(1, MergeOrder)
  \/ pullChanges_query(1, MergeOrder)
  \/ pullChanges_get(1, MergeOrder)
  \/ pullChanges_put(1, MergeOrder)
  \/ syncAll_return(1)
  \/ syncAll_catch(1, MergeOrder)
  \/ \E i \in Ids : startFeeding(i)
  \/ \E i \in Ids : RemoteUpsert("feedingSessions", i, FeedingRows)
  \/ SetOnline

SpecCatch == InitAt({ 100000 }, MaxOps, BOOLEAN) /\ [][NextCatch]_vars

----------------------------------------------------------------------------
(* SpecOverlap: every trigger of a cycle, MaxCycles invocations at most in *)
(* flight: the debounce timer of triggerSync, and handleSync (online       *)
(* event, visibility event, interval, manual sync), while the user starts, *)
(* updates and cancels sessions and the network comes and goes.            *)

NextOverlap ==
  \/ TimerFire(Slots)
  \/ TimerResume(Slots)
  \/ handleSync(Slots)
  \/ \E s \in Slots : pushChanges_read(s, FeedingOrder)
  \/ \E s \in Slots : pushChanges_upsert(s, FeedingOrder)
  \/ \E s \in Slots : pushChanges_mark(s, FeedingOrder)
  \/ \E s \in Slots : pullChanges_query(s, FeedingOrder)
  \/ \E s \in Slots : pullChanges_get(s, FeedingOrder)
  \/ \E s \in Slots : pullChanges_put(s, FeedingOrder)
  \/ \E s \in Slots : syncAll_return(s)
  \/ \E i \in Ids : startFeeding(i)
  \/ \E i \in Ids : updateFeedingSession(i)
  \/ \E i \in Ids : cancelFeeding(i)
  \/ SetOnline

SpecOverlap == InitAt({ 100000 }, MaxOps, BOOLEAN) /\ [][NextOverlap]_vars

----------------------------------------------------------------------------
(* Properties of the push, in SpecPush *)

Synced(row) == [row EXCEPT !.syncStatus = "synced"]

LastTable == tableMapping[last.t]

\* C3: when the upsert of a non-empty pending batch succeeds, the remote
\* table holds for each id of the batch exactly the row version that was
\* uploaded (and no other remote row changed); the mark that follows leaves
\* every row of the batch that the local table still holds with syncStatus
\* 'synced', changes nothing but syncStatus, and reports the batch size.
C3_PushSuccess ==
  /\ last.op = "push_upsert" =>
       \A i \in Ids :
         remote[LastTable][i] =
           IF i \in DOMAIN last.records THEN last.records[i] ELSE last.preR[i]
  /\ last.op = "push_mark" =>
       /\ \A i \in DOMAIN last.records :
            Exists(local[last.t][i]) => local[last.t][i].syncStatus = "synced"
       /\ \A i \in Ids :
            local[last.t][i] \in { last.pre[i], Synced(last.pre[i]) }
       /\ \A i \in Ids \ DOMAIN last.records : local[last.t][i] = last.pre[i]
       /\ last.res = [ count |-> Cardinality(DOMAIN last.records), errors |-> << >> ]

\* a batch was uploaded and marked: its row is synced locally and the remote
\* table holds the uploaded version
C3_Witness ==
  /\ last.op = "push_mark"
  /\ \E i \in DOMAIN last.records :
       /\ last.pre[i].syncStatus = "pending"
       /\ local[last.t][i].syncStatus = "synced"
       /\ remote[LastTable][i] = last.records[i]

\* C4: when the upsert answers with an error, no local row is modified and
\* the rows of the batch stay pending; pushChanges returns count 0 with
\* exactly one error string and nothing is marked (the cycle goes on to the
\* pull); every push reads all rows that are pending, so the rows are
\* selected again by the next cycle.
C4_PushError ==
  /\ last.op = "push_upsert_error" =>
       /\ local[last.t] = last.pre
       /\ \A i \in DOMAIN last.records :
            Exists(local[last.t][i]) => local[last.t][i].syncStatus = "pending"
       /\ last.res.count = 0
       /\ Len(last.res.errors) = 1
       /\ cyc[last.s].pushRes = last.res
       /\ cyc[last.s].pc = "pull_query"
  /\ last.op = "push_read" =>
       /\ DOMAIN last.records = { i \in Ids : local[last.t][i].syncStatus = "pending" }
       /\ \A i \in DOMAIN last.records : last.records[i] = local[last.t][i]

\* the upsert of a non-empty batch failed and its rows are still pending
C4_Witness ==
  /\ last.op = "push_upsert_error"
  /\ DOMAIN last.records # {}
  /\ \A i \in DOMAIN last.records : local[last.t][i].syncStatus = "pending"

\* C5: uploading a batch whose rows the remote table already holds (the
\* same pending batch uploaded again) leaves the remote table as it was:
\* one row per id, carrying the uploaded version.
C5_PushIdempotent ==
  ( /\ last.op \in { "push_upsert", "push_upsert_error" }
    /\ \A i \in DOMAIN last.records : last.preR[i] = last.records[i] )
  => remote[LastTable] = last.preR

\* a batch the remote table already held was uploaded a second time
C5_Witness ==
  /\ last.op = "push_upsert"
  /\ DOMAIN last.records # {}
  /\ \A i \in DOMAIN last.records : last.preR[i] = last.records[i]
  /\ remote[LastTable] = last.preR

----------------------------------------------------------------------------
(* Properties of the merge and of the change feed, in SpecMerge *)

\* C1: the merge loop compares the fetched remote row with the local row
\* it read: if there is no local row or remote.updatedAt > local.updatedAt
\* it puts the remote row with syncStatus 'synced' under that id; if
\* local.updatedAt >= remote.updatedAt (ties included) it writes nothing
\* and the local table is exactly as it was.
C1_PullLastWriteWins ==
  /\ last.op = "pull_get" =>
       /\ local[last.t] = last.pre
       /\ last.rl = last.pre[last.id]
       /\ (~Exists(last.rl) \/ last.rec.updatedAt > last.rl.updatedAt)
            => (cyc[last.s].pc = "pull_put" /\ cyc[last.s].cur = last.id)
       /\ (Exists(last.rl) /\ last.rl.updatedAt >= last.rec.updatedAt)
            => cyc[last.s].pc # "pull_put"
  /\ last.op = "pull_put" =>
       /\ ~Exists(last.rl) \/ last.rec.updatedAt > last.rl.updatedAt
       /\ local[last.t] = [last.pre EXCEPT ![last.id] = Synced(last.rec)]

\* a tie: the fetched row and the local row carry the same updatedAt and
\* differ in content, and the local row stayed
C1_Witness ==
  /\ last.op = "pull_get"
  /\ Exists(last.rl)
  /\ last.rl.updatedAt = last.rec.updatedAt
  /\ last.rl._deleted # last.rec._deleted
  /\ local[last.t][last.id] = last.rl

\* C6: on an INSERT or UPDATE event with an id the handler decides as the
\* merge loop does (no local row, or record.updatedAt > local.updatedAt) and
\* writes the same row (the record with syncStatus 'synced'); so a version
\* the local table already holds through one of the two paths is not
\* written again by the other.
C6_FeedSameAsPull ==
  /\ last.op = "rt_get" =>
       /\ local[last.t] = last.pre
       /\ last.rl = last.pre[last.id]
       /\ (rt # NoHandler)
            <=> (~Exists(last.rl) \/ last.rec.updatedAt > last.rl.updatedAt)
       /\ rt # NoHandler => (rt.t = last.t /\ rt.id = last.id /\ rt.rec = last.rec)
  /\ last.op = "rt_put" =>
       local[last.t] = [last.pre EXCEPT ![last.id] = Synced(last.rec)]
  /\ (last.op \in { "rt_get", "pull_get" } /\ last.rl = Synced(last.rec)) =>
       /\ local[last.t] = last.pre
       /\ last.op = "rt_get" => rt = NoHandler
       /\ last.op = "pull_get" => cyc[last.s].pc # "pull_put"

\* the listener wrote a version and the pull that fetched the same version
\* left the row alone
C6_Witness ==
  /\ last.op = "pull_get"
  /\ via[last.t][last.id] = "feed"
  /\ last.rl = Synced(last.rec)
  /\ local[last.t][last.id] = last.rl

\* C7: a DELETE event that carries an id removes the local row with that
\* id whatever its updatedAt and syncStatus, and leaves every other row; a
\* DELETE event without an id, or for an id the local table does not hold,
\* changes nothing.
C7_FeedDelete ==
  /\ last.op = "rt_delete" =>
       /\ ~Exists(local[last.t][last.id])
       /\ \A i \in Ids \ { last.id } : local[last.t][i] = last.pre[i]
       /\ ~Exists(last.pre[last.id]) => local[last.t] = last.pre
  /\ last.op = "rt_delete_noid" => local[last.t] = last.pre

\* a DELETE event removed a row that was pending
C7_Witness ==
  /\ last.op = "rt_delete"
  /\ last.pre[last.id].syncStatus = "pending"
  /\ ~Exists(local[last.t][last.id])

----------------------------------------------------------------------------
(* Properties of the cursor, in SpecCursor and SpecReset *)

\* the last step ended a pull that had fetched rows: it wrote the cursor
CursorWritten ==
  /\ last.op \in { "pull_get", "pull_put", "pull_bulkPut" }
  /\ cyc[last.s].pc \notin { "pull_get", "pull_put" }

\* the greatest updatedAt among the rows the pull fetched
Requested ==
  CHOOSE m \in { last.records[i].updatedAt : i \in DOMAIN last.records } :
    \A i \in DOMAIN last.records : last.records[i].updatedAt <= m

StoredCursor == localStorage[lastSyncKey(LastTable)]

\* C8: the cursor a pull stores is never greater than the device's time at
\* the moment of the call: it is the requested time (the greatest updatedAt
\* fetched) when that is not in the future, and the device's time otherwise.
C8_CursorClamped ==
  CursorWritten =>
    /\ StoredCursor # Null
    /\ parseInt(StoredCursor) <= now
    /\ parseInt(StoredCursor) = IF Requested <= now THEN Requested ELSE now

\* a pull fetched a row stamped in the device's future and stored the
\* device's time
C8_Witness ==
  /\ CursorWritten
  /\ Requested > now
  /\ parseInt(StoredCursor) = now

\* the cursor item as the query step found it, as a number (0: no item)
FoundCursor == IF last.preItem = Null THEN 0 ELSE parseInt(last.preItem)

AllRemoteRows == { i \in Ids : Exists(remote[LastTable][i]) }

\* what getLastSyncTime returns and leaves, as C9 states it
CursorRead ==
  /\ last.lastSync <= now + 5
  /\ last.preItem = Null => last.lastSync = 0
  /\ FoundCursor > now + 5 => (last.lastSync = 0 /\ StoredCursor = Null)
  /\ FoundCursor <= now + 5 => (last.lastSync = FoundCursor /\ StoredCursor = last.preItem)

\* C9 as stated, for every table: the cursor read is never above now + 5
\* minutes; a stored cursor above that is discarded and read as 0, no stored
\* cursor reads as 0; and the pull after a discarded cursor fetches every
\* row of the remote table, whatever the table.
C9_AsClaimed ==
  /\ last.op \in { "pull_query", "pull_query_error" } => CursorRead
  /\ (last.op = "pull_query" /\ FoundCursor > now + 5) =>
       /\ DOMAIN last.records = AllRemoteRows
       /\ \A i \in DOMAIN last.records : last.records[i] = remote[LastTable][i]

\* C9, amended: as above, but the pull after a discarded cursor fetches
\* every row only for a non-telemetry table; for owlet_readings it fetches
\* the fast-forward window: the rows recorded within the last 60 minutes
\* (at most 600 of them).
C9_CursorGuard ==
  /\ last.op \in { "pull_query", "pull_query_error" } => CursorRead
  /\ (last.op = "pull_query" /\ FoundCursor > now + 5) =>
       /\ IF last.t = "owletReadings"
          THEN /\ DOMAIN last.records \subseteq
                    { i \in AllRemoteRows : remote[LastTable][i].recordedAt >= now - 60 }
               /\ \/ DOMAIN last.records =
                       { i \in AllRemoteRows : remote[LastTable][i].recordedAt >= now - 60 }
                  \/ Cardinality(DOMAIN last.records) = 600
          ELSE DOMAIN last.records = AllRemoteRows
       /\ \A i \in DOMAIN last.records : last.records[i] = remote[LastTable][i]

\* a cursor more than 5 minutes ahead of the clock was discarded and the
\* pull of a session table fetched every remote row
C9_Witness ==
  /\ last.op = "pull_query"
  /\ last.t = "feedingSessions"
  /\ FoundCursor > now + 5
  /\ last.lastSync = 0
  /\ StoredCursor = Null
  /\ DOMAIN last.records = AllRemoteRows
  /\ AllRemoteRows # {}

\* C10: on a non-telemetry table the pull fetches every remote row when the
\* cursor is 0, and otherwise exactly the rows with updatedAt > cursor or
\* updatedAt >= now - 30 days; all of them go through the merge loop.
C10_PullFilter ==
  (last.op = "pull_query" /\ last.t # "owletReadings") =>
    /\ DOMAIN last.records =
         IF last.lastSync = 0 THEN AllRemoteRows
         ELSE { i \in AllRemoteRows :
                  \/ remote[LastTable][i].updatedAt > last.lastSync
                  \/ remote[LastTable][i].updatedAt >= now - 43200 }
    /\ \A i \in DOMAIN last.records : last.records[i] = remote[LastTable][i]
    /\ DOMAIN last.records # {} =>
         (cyc[last.s].pc = "pull_get" /\ cyc[last.s].todo = DOMAIN last.records)

\* a row at or below the cursor was fetched because it is within 30 days,
\* and goes through the merge loop
C10_Witness ==
  /\ last.op = "pull_query"
  /\ last.lastSync > 0
  /\ \E i \in DOMAIN last.records : last.records[i].updatedAt <= last.lastSync
  /\ cyc[last.s].pc = "pull_get"

----------------------------------------------------------------------------
(* Single flight, in SpecOverlap *)

Running == { s \in Slots : cyc[s].pc # "idle" }

\* C2: at most one syncAll invocation is executing at any time, whatever
\* the trigger.
C2_SingleFlight == Cardinality(Running) <= 1

----------------------------------------------------------------------------
(* Properties of the fast-forward, in SpecTelemetry *)

\* the cursor the query step read is 0 or more than 3 minutes old
StaleCursor == last.lastSync = 0 \/ now - last.lastSync > 3

\* what the fast-forward fetches and writes, as C11 states it
FastForwardFetch ==
  (last.op = "pull_query" /\ last.t = "owletReadings") =>
    /\ StaleCursor =>
         /\ Cardinality(DOMAIN last.records) <= 600
         /\ \A i \in DOMAIN last.records :
              /\ last.records[i] = remote[LastTable][i]
              /\ last.records[i].recordedAt >= now - 60
         /\ DOMAIN last.records # {} => cyc[last.s].pc = "pull_bulkPut"
    /\ ~StaleCursor =>
         (DOMAIN last.records # {} =>
            (cyc[last.s].pc = "pull_get" /\ cyc[last.s].todo = DOMAIN last.records))

FastForwardWrite ==
  last.op = "pull_bulkPut" =>
    /\ last.t = "owletReadings"
    /\ \A i \in Ids :
         local[last.t][i] =
           IF i \in DOMAIN last.records THEN Synced(last.records[i]) ELSE last.pre[i]
    /\ cyc[last.s].pc \notin { "pull_get", "pull_put", "pull_bulkPut" }

----------------------------------------------------------------------------
(* Properties of the cursor's advance, in SpecCursor *)

----------------------------------------------------------------------------
(* Properties of a failed fetch, in SpecReset *)

\* the result syncTable recorded last in the cycle of the last step
LastResult == cyc[last.s].results[Len(cyc[last.s].results)]

----------------------------------------------------------------------------
(* The local queries of feeding sessions, each as the set of ids it can    *)
(* return.  A row of the model carries no childId and the model has one    *)
(* child and one day: every row passes those filters.                      *)

\* getFeedingsForDay: .and(f => !f._deleted && ...)
getFeedingsForDay(tbl) == { i \in Ids : Exists(tbl[i]) /\ ~tbl[i]._deleted }

\* getLastFeeding: .and(f => !f._deleted && f.endTime !== undefined)
getLastFeeding(tbl) ==
  { i \in Ids : Exists(tbl[i]) /\ ~tbl[i]._deleted /\ tbl[i].endTime # 0 }

\* getActiveFeeding: the session the 'feeding' timer names if the table holds
\* it, and only otherwise an open session that is not deleted
getActiveFeeding(tbl, timers) ==
  LET activityId == timers["feeding"]
  IN  IF activityId # 0 /\ Exists(tbl[activityId])
      THEN { activityId }
      ELSE { i \in Ids : /\ Exists(tbl[i])
                          /\ ~tbl[i]._deleted /\ tbl[i].endTime = 0 /\ tbl[i].startTime > 0 }

----------------------------------------------------------------------------
(* C14 *)

\* C14: deleteFeedingSession on a synced row keeps the row, with _deleted
\* true, syncStatus pending and an updatedAt that is not smaller (an instant
\* of the model is a minute wide: a version written within the present
\* minute counts as earlier), and none of getFeedingsForDay, getActiveFeeding
\* and getLastFeeding returns the row afterwards.
C14_SoftDelete ==
  (last.op = "deleteFeedingSession" /\ last.pre[last.id].syncStatus = "synced") =>
    LET tbl == local["feedingSessions"]
        row == tbl[last.id]
    IN  /\ Exists(row)
        /\ row._deleted
        /\ row.syncStatus = "pending"
        /\ row.updatedAt >= last.pre[last.id].updatedAt
        /\ last.id \notin getFeedingsForDay(tbl)
        /\ last.id \notin getLastFeeding(tbl)
        /\ last.id \notin getActiveFeeding(tbl, activeTimers)

----------------------------------------------------------------------------
(* C15 *)

\* the steps that are calls of the mutation API
Mutations ==
  { "startSleep", "stopSleep", "deleteSleepSession",
    "startFeeding", "updateFeedingSession", "deleteFeedingSession",
    "cancelFeeding", "ingestOwletReading" }

\* C15: a call of the mutation API removes a row from its local table only
\* if the row was never uploaded: the remote table does not hold its id.
C15_HardDeleteUnpushed ==
  \A i \in Ids :
    ( /\ last.op \in Mutations
      /\ Exists(last.pre[i])
      /\ ~Exists(local[last.t][i]) )
    => ~Exists(last.preR[i])

----------------------------------------------------------------------------
(* C16 *)

\* the remote table holds the version of row i that the local table holds
RemoteHoldsVersion(lt, i) ==
  /\ Exists(remote[tableMapping[lt]][i])
  /\ remote[tableMapping[lt]][i].updatedAt = local[lt][i].updatedAt

----------------------------------------------------------------------------
(* C17 *)

\* the steps that are mutations of the claim: every call of the mutation
\* API but the hard delete
SoftMutations == Mutations \ { "cancelFeeding" }

\* the rows the last step changed
Changed == { i \in DOMAIN local[last.t] : local[last.t][i] # last.pre[i] }

\* C17: a mutation leaves every row it changes with updatedAt = the device's
\* present time and syncStatus pending, and changes no remote row.
C17_LocalMutation ==
  last.op \in SoftMutations =>
    /\ \A i \in Changed :
         /\ local[last.t][i].updatedAt = now
         /\ local[last.t][i].syncStatus = "pending"
    /\ remote[LastTable] = last.preR

\* startSleep has closed a stale open session while the device is offline
C17_Witness ==
  /\ last.op = "startSleep"
  /\ ~online
  /\ \E i \in Changed : i # last.id /\ local[last.t][i].endTime # 0

\* a mutation has written a row in a build without Supabase credentials
C17_WitnessUnconfigured ==
  /\ last.op \in SoftMutations
  /\ ~configured
  /\ Changed # {}

----------------------------------------------------------------------------
(* C18 *)

\* C18: a call of the mutation API that has written a row has called
\* triggerSync after it: with the remote store configured and the device
\* online, a debounce timer is set when the call returns.
C18_SignalsOrchestrator ==
  (last.op \in Mutations /\ Changed # {} /\ configured /\ online) => syncTimeout

----------------------------------------------------------------------------
(* C19 *)

\* C19: a mutation's triggerSync, with the remote store configured and the
\* device online, leaves one debounce timer set and leaves every cycle in
\* flight as it is; and the cycle a debounce timer starts, starts when no
\* other cycle is in flight.
C19_Debounce ==
  [][ /\ (last'.op \in Mutations /\ configured /\ online) =>
           (syncTimeout' /\ cyc' = cyc)
      /\ (last'.op = "syncAll_start" /\ cyc'[last'.s].origin = "debounce") =>
           \A r \in Slots \ { last'.s } : cyc[r].pc = "idle" ]_vars

----------------------------------------------------------------------------
(* C20 *)

----------------------------------------------------------------------------
(* C21 *)

\* where a cycle is: in the push of its table, or in the pull of it
InPush(c) == c.pc \in { "push_read", "push_upsert", "push_mark" }
InPull(c) == c.pc \in { "pull_query", "pull_get", "pull_put", "pull_bulkPut" }

\* the steps of pushChanges and of pullChanges
PushSteps == { "push_read", "push_upsert", "push_upsert_error", "push_mark" }
PullSteps == { "pull_query", "pull_query_error", "pull_get", "pull_put", "pull_bulkPut" }

\* C21: a cycle starts with the push of children; a table's push is followed
\* by more of that push or by the start of that table's pull; a table's pull
\* is followed by more of that pull, or by the start of the next table's
\* push, or after owletReadings by the return; and every step of a cycle
\* works on the table the cycle is at, the tables being taken in the order
\* children, sleepSessions, feedingSessions, pumpSessions, diaperChanges,
\* growthMeasurements, owletReadings.
C21_TableOrder ==
  [][ \A s \in Slots :
        LET c == cyc[s]
            d == cyc'[s]
        IN  cyc'[s] # cyc[s] =>
              /\ c.pc = "idle" => (d.pc = "push_read" /\ d.ti = 1)
              /\ InPush(c) =>
                   /\ d.ti = c.ti
                   /\ InPush(d) \/ d.pc = "pull_query"
                   /\ last'.op \in PushSteps
              /\ InPull(c) =>
                   /\ last'.op \in PullSteps
                   /\ \/ d.ti = c.ti /\ InPull(d) /\ d.pc # "pull_query"
                      \/ d.ti = c.ti + 1 /\ d.pc = "push_read"
                      \/ c.ti = 7 /\ d.pc = "return"
              /\ (InPush(c) \/ InPull(c)) =>
                   last'.t = << "children", "sleepSessions", "feedingSessions",
                                "pumpSessions", "diaperChanges", "growthMeasurements",
                                "owletReadings" >>[c.ti]
              /\ c.pc = "return" => d.pc = "idle" ]_vars

\* a cycle has pushed a feeding session and pulled a child on its way, and
\* is in the pull of owletReadings, the last table
C21_Witness ==
  /\ cyc[1].ti = 7
  /\ InPull(cyc[1])
  /\ Len(cyc[1].results) = 6
  /\ cyc[1].results[1].pulled > 0
  /\ cyc[1].results[3].pushed > 0

----------------------------------------------------------------------------
(* mergeChildren *)

\* mergeChildren has just completed: its final syncAll has returned
MergeCompleted == mc.pc = "final" /\ last.op = "syncAll_return"

\* ... and no request of it, nor its final syncAll, reported an error
MergeWithoutError == MergeCompleted /\ ~mc.failed /\ last.ret.errors = << >>

\* C22: when mergeChildren has completed without error on a remote store
\* that held children of other ids than the fixed one that were not
\* soft-deleted, the remote store holds the child of the fixed id, not
\* soft-deleted, and holds each of those other children soft-deleted and
\* stamped with the time of the merge; no child row has been removed.
C22_MergeChildren ==
  MergeWithoutError =>
    /\ Exists(remote["children"][DEFAULT_CHILD_ID])
    /\ ~remote["children"][DEFAULT_CHILD_ID]._deleted
    /\ \A i \in mc.oldIds :
         /\ Exists(remote["children"][i])
         /\ remote["children"][i]._deleted
         /\ remote["children"][i].updatedAt = mc.now
    /\ \A i \in ChildIds : Exists(mc.start[i]) => Exists(remote["children"][i])

\* the remote tables whose rows belong to a child
RootKeyedTables == TableName \ { "children" }

\* C23: when mergeChildren has completed without error, every row of every
\* remote table whose rows belong to a child (growth_measurements and
\* owlet_readings among them) names the child of the fixed id, and those
\* that named another child carry the time of the merge: no row names a
\* child that the merge soft-deleted.
C23_Reassigned ==
  MergeWithoutError =>
    \A tn \in RootKeyedTables : \A i \in DOMAIN remote[tn] :
      Exists(remote[tn][i]) => remote[tn][i].childId = DEFAULT_CHILD_ID

\* the same with errors allowed, for the tables mergeChildren goes through
C23_ReassignedListed ==
  MergeCompleted =>
    \A k \in 1..Len(dataTables) : \A i \in DOMAIN remote[dataTables[k]] :
      Exists(remote[dataTables[k]][i]) => remote[dataTables[k]][i].childId = DEFAULT_CHILD_ID

\* mergeChildren has soft-deleted the old children, no request of it has
\* failed, and the pull of children of the cycle that follows (the final
\* syncAll: the first pull of children after the merge) has completed
\* without error
PulledAfterMerge ==
  /\ mc.pc = "final"
  /\ ~mc.failed
  /\ cyc[mc.s].pc # "idle"
  /\ Len(cyc[mc.s].results) >= 1
  /\ cyc[mc.s].results[1].errors = << >>
  \* instants are minutes: a copy stamped in the minute of the merge may be
  \* older or newer than the merge
  /\ \A i \in mc.oldIds : local["children"][i].updatedAt # mc.now

\* C24: once the merge has soft-deleted the old children remotely, the next
\* completed pull of children leaves the device's rows of those children
\* soft-deleted, and the child of the fixed id is the one useCurrentChild
\* returns.
C24_PullAfterMerge ==
  PulledAfterMerge =>
    /\ \A i \in mc.oldIds : Exists(local["children"][i]) /\ local["children"][i]._deleted
    /\ useCurrentChild(local["children"]) = { DEFAULT_CHILD_ID }

----------------------------------------------------------------------------
(* The active timers *)

\* the local table of the sessions of a timer
TimerTable ==
  [ sleep |-> "sleepSessions", feeding |-> "feedingSessions", pump |-> "pumpSessions" ]

\* C25: whenever there is an active timer of a kind, the session it names
\* is in the local table, has no endTime and is not soft-deleted.
C25_TimerValid ==
  \A t \in TimerIds :
    activeTimers[t] # 0 =>
      LET row == local[TimerTable[t]][activeTimers[t]]
      IN  Exists(row) /\ row.endTime = 0 /\ ~row._deleted

----------------------------------------------------------------------------
(* startSleep *)

\* the sessions of a table that are not soft-deleted and have no endTime
OpenNotDeleted(tbl) ==
  { j \in DOMAIN tbl : Exists(tbl[j]) /\ ~tbl[j]._deleted /\ tbl[j].endTime = 0 }

\* C26: when startSleep has returned, one sleep session only is not
\* soft-deleted and without endTime, it is the one returned, and the sleep
\* timer names it.  If sessions were open before, no row was added, the one
\* returned is one that started latest, and each other one has been closed
\* with endTime = max(startTime + 1, startTime of the one returned) and is
\* pending.
C26_StartSleep ==
  last.op = "startSleep" =>
    LET pre  == last.pre
        tbl  == local["sleepSessions"]
        open == OpenNotDeleted(pre)
    IN  /\ OpenNotDeleted(tbl) = { last.id }
        /\ activeTimers["sleep"] = last.id
        /\ open # {} =>
             /\ \A j \in DOMAIN tbl : Exists(tbl[j]) <=> Exists(pre[j])
             /\ last.id \in open
             /\ \A j \in open : pre[j].startTime <= pre[last.id].startTime
             /\ \A j \in open \ { last.id } :
                  /\ tbl[j].endTime = Max(pre[j].startTime + 1, pre[last.id].startTime)
                  /\ tbl[j].syncStatus = "pending"

\* startSleep has found two sessions open, has reused the later one and has
\* closed the other
C26_Witness ==
  /\ last.op = "startSleep"
  /\ Cardinality(OpenNotDeleted(last.pre)) = 2
  /\ \E j \in OpenNotDeleted(last.pre) :
       /\ last.pre[j].startTime < last.pre[last.id].startTime
       /\ local["sleepSessions"][j].endTime = last.pre[last.id].startTime

----------------------------------------------------------------------------
(* What syncAll returns when something fails *)

\* C27: when a syncAll invocation ends, by its return or by its catch, it
\* returns a result, and every failure of the cycle (the error strings of
\* its pushes and pulls, the message of what the local store threw) is a
\* string of the errors it returns.
C27_ErrorsReturned ==
  (last.op \in { "syncAll_return", "syncAll_catch" } /\ last.s # 0) =>
    /\ last.ret # NoReturn
    /\ \A k \in 1..Len(last.res.errors) :
         \E j \in 1..Len(last.ret.errors) : last.ret.errors[j] = last.res.errors[k]

----------------------------------------------------------------------------
(* createdAt and updatedAt *)

\* C28: every row of every local table and of every remote table has
\* updatedAt >= createdAt.
C28_UpdatedAfterCreated ==
  /\ \A lt \in LocalTables : \A i \in DOMAIN local[lt] :
       Exists(local[lt][i]) => local[lt][i].updatedAt >= local[lt][i].createdAt
  /\ \A tn \in TableName : \A i \in DOMAIN remote[tn] :
       Exists(remote[tn][i]) => remote[tn][i].updatedAt >= remote[tn][i].createdAt

\* the same for the canonical child mergeChildren writes
C28_CanonicalChild ==
  last.op = "mergeChildren_canonical" =>
    LET row == remote["children"][DEFAULT_CHILD_ID]
    IN  Exists(row) => row.updatedAt >= row.createdAt

----------------------------------------------------------------------------
(* Who writes the cursors *)

\* C29: a step that changes the stored cursor of a table is a step of
\* pullChanges on that table: no step of pushChanges, of the change-feed
\* handler, of mergeChildren or of a local mutation changes a cursor, and a
\* pull changes the cursor of its own table only.
C29_CursorFrame ==
  [][ \A tn \in TableName :
        localStorage'[lastSyncKey(tn)] # localStorage[lastSyncKey(tn)] =>
          /\ last'.op \in PullSteps
          /\ last'.t = localTableMapping[tn] ]_vars

\* a pull has written the cursor of feeding_sessions while the cursor of
\* children is stored, after the change feed has written a row
C29_Witness ==
  /\ last.op \in PullSteps
  /\ last.t = "feedingSessions"
  /\ localStorage[lastSyncKey("feeding_sessions")] # last.preItem
  /\ localStorage[lastSyncKey("children")] # Null
  /\ \E lt \in LocalTables : \E i \in DOMAIN via[lt] : via[lt][i] = "feed"

\* mergeChildren has re-written the children of the remote store and its
\* final syncAll has pulled them, with the cursors of the first syncAll stored
C29_WitnessMerge ==
  /\ mc.pc = "final"
  /\ last.op \in PullSteps
  /\ last.t = "children"
  /\ localStorage[lastSyncKey("children")] # last.preItem
  /\ last.preItem # Null

----------------------------------------------------------------------------
(* Convergence *)

\* two copies of a row are the same version (syncStatus is each store's own)
SameVersion(a, b) == [a EXCEPT !.syncStatus = ""] = [b EXCEPT !.syncStatus = ""]

\* the two devices and the remote store hold the same version of every
\* feeding session.  (A local row gives way to a newer one only, so a
\* version all three hold is the one of the greatest updatedAt written.)
Converged ==
  \A i \in Ids :
    /\ SameVersion(local["feedingSessions"][i], remote["feeding_sessions"][i])
    /\ SameVersion(peer.tbl[i], remote["feeding_sessions"][i])

\* the users of both devices have written the session
BothMutated == peer.mutated /\ \E i \in Ids : via["feedingSessions"][i] = "user"

\* C30: when two devices have updated the same session and go on running
\* cycles, with no further mutation and no error, from some moment on both
\* devices and the remote store hold the same version of it.
C30_Convergence == <>[](BothMutated => Converged)

----------------------------------------------------------------------------
(* C31 *)

\* every local feeding is marked synced and the remote store holds that
\* version of it
Uploaded ==
  \A i \in Ids :
    Exists(local["feedingSessions"][i]) =>
      /\ local["feedingSessions"][i].syncStatus = "synced"
      /\ SameVersion(local["feedingSessions"][i], remote["feeding_sessions"][i])

\* C31: on a configured device whose network is available in the end and
\* whose sync triggers keep firing, once the user has stopped writing every
\* row is uploaded and marked synced, whatever pushes failed before.
C31_EventualUpload == (<>[]online) => <>[]Uploaded

----------------------------------------------------------------------------
(* C32 *)

\* C32: whatever runs between the read and the put of one turn of the merge
\* loop, the put replaces no local row by a remote version older than the
\* one the table holds when the put is made (an instant of the model is a
\* minute wide: two versions of the same minute are not told apart).
C32_PutOverNewer ==
  last.op = "pull_put" =>
    \/ ~Exists(last.pre[last.id])
    \/ last.rec.updatedAt >= last.pre[last.id].updatedAt

----------------------------------------------------------------------------
(* C33 *)

\* C33: when pushChanges marks its batch, a row of the batch that a local
\* mutation has rewritten since the batch was read (a new updatedAt,
\* pending) is left as that mutation wrote it: still pending.
C33_MarkedIsUploaded ==
  last.op = "push_mark" =>
    \A i \in DOMAIN last.records :
      (last.pre[i].syncStatus = "pending" /\ last.pre[i] # last.records[i])
        => local[last.t][i] = last.pre[i]

----------------------------------------------------------------------------
(* C34 *)

\* the feedings the user has started and cancelFeeding has removed (ids are
\* handed out once, and on this device nothing else removes a row)
Cancelled ==
  { i \in used["feedingSessions"] : ~Exists(local["feedingSessions"][i]) }

\* C34: a feeding that cancelFeeding has removed stays removed: no step of a
\* cycle puts a row under its id again.
C34_StaysCancelled ==
  [][\A i \in Cancelled : ~Exists(local'["feedingSessions"][i])]_vars

----------------------------------------------------------------------------
(* C35 *)

\* C35: the upsert of a push replaces no remote row by a version whose
\* updatedAt is smaller than that of the row the remote store held.
C35_PushNoRegress ==
  last.op = "push_upsert" =>
    \A i \in DOMAIN last.records :
      Exists(last.preR[i]) =>
        remote[tableMapping[last.t]][i].updatedAt >= last.preR[i].updatedAt

----------------------------------------------------------------------------
(* C36 *)

\* C36: a pull that completes leaves its table's cursor at a value that is
\* not smaller than the one it found (in these runs the device clock never
\* goes back and no stored cursor is ahead of it).
C36_CursorMonotone ==
  last.op \in { "pull_get", "pull_put", "pull_bulkPut" } =>
    (IF StoredCursor = Null THEN 0 ELSE parseInt(StoredCursor)) >= FoundCursor

----------------------------------------------------------------------------
(* C37 *)

\* a step with which an invocation of syncAll returns
Returns(l) == l.op \in { "syncAll_return", "syncAll_catch" }

\* the cycle that returns with this step has synced every table, and no
\* push and no pull of it has returned an error
CleanCycle ==
  /\ Len(cyc[last'.s].results) = Len(MergeOrder)
  /\ \A k \in 1..Len(MergeOrder) : cyc[last'.s].results[k].errors = << >>

\* C37: syncAll returns success = true exactly when the errors it returns
\* are none or the remote store is not configured; and lastGlobalSync is
\* written only by the return of a cycle in which every push and every pull
\* finished without error: a cycle with an error, a call made offline or
\* without configuration leaves the item as it was.
C37_SuccessAndStamp ==
  [][/\ Returns(last') =>
          (last'.ret.success <=> (last'.ret.errors = << >> \/ ~configured))
     /\ localStorage'["lastGlobalSync"] # localStorage["lastGlobalSync"] =>
          /\ last'.op = "syncAll_return"
          /\ last'.s # 0
          /\ last'.ret.errors = << >>
          /\ CleanCycle
          /\ localStorage'["lastGlobalSync"] = toString(now)]_vars

\* a cycle in which a request failed has returned, and the stamp an earlier
\* cycle wrote is there
C37_Witness ==
  /\ last.op = "syncAll_return"
  /\ last.s # 0
  /\ ~last.ret.success
  /\ last.ret.errors # << >>
  /\ localStorage["lastGlobalSync"] # Null

----------------------------------------------------------------------------
(* C38 *)

\* the local tables whose rows carry a childId
DependentTables == LocalTables \ { "children" }

\* the local children table holds one child that is not deleted, the one
\* of the fixed id
OneChild == NotDeleted(local["children"]) = { DEFAULT_CHILD_ID }

\* no local row names another child than the one of the fixed id
AllCanonical ==
  \A lt \in DependentTables : \A i \in DOMAIN local[lt] :
    Exists(local[lt][i]) => local[lt][i].childId = DEFAULT_CHILD_ID

\* C38: when getOrCreateDefaultChild has returned, the local children table
\* holds exactly one row that is not deleted, under the fixed id; no local
\* row of a dependent table names another child; and calling it again
\* changes nothing.
C38_OneLocalChild ==
  last.op = "getOrCreateDefaultChild" =>
    /\ OneChild
    /\ AllCanonical
    /\ defaultChild(local, now) = local

----------------------------------------------------------------------------
(* The last sleep of a child.  A session that was started here has no      *)
(* endTime property until it is stopped; a row that a pull or the change   *)
(* feed stored is the remote row as PostgREST sends it, and the nullable   *)
(* endTime column of an open session arrives as null.  In the table of     *)
(* sleep sessions a row that is not deleted and not ended was either       *)
(* started here or stored from the remote table, which the history `via'   *)
(* tells apart.                                                            *)

\* s.endTime !== undefined, of the row under an id whose last writer is w
endTimeDefined(row, w) == row.endTime # 0 \/ w \in { "pull", "feed" }

\* getLastSleepSession: the ids sessions[0] can be (none: undefined).  The
\* rows of the child that pass the filter, sorted by endTime and reversed;
\* null compares as 0, and rows of equal endTime come in either order
getLastSleepSession(tbl, w, childId) ==
  LET sessions == { i \in DOMAIN tbl : /\ Exists(tbl[i])
                                       /\ tbl[i].childId = childId
                                       /\ ~tbl[i]._deleted
                                       /\ endTimeDefined(tbl[i], w[i]) }
  IN  { i \in sessions : \A j \in sessions : tbl[i].endTime >= tbl[j].endTime }

\* getWakeWindowMinutes, in the minutes of the clock: null without a last
\* sleep or with one whose endTime is falsy
getWakeWindowMinutes(tbl, w, childId, nowv) ==
  LET lastSleep == getLastSleepSession(tbl, w, childId)
  IN  IF lastSleep = {} \/ \A i \in lastSleep : tbl[i].endTime = 0
      THEN Null
      ELSE nowv - tbl[CHOOSE i \in lastSleep : TRUE].endTime

----------------------------------------------------------------------------
(* C39 *)

\* the sessions of the child that are not deleted and have ended
Completed(childId) ==
  { i \in SleepIds : /\ Exists(local["sleepSessions"][i])
                     /\ local["sleepSessions"][i].childId = childId
                     /\ ~local["sleepSessions"][i]._deleted
                     /\ local["sleepSessions"][i].endTime # 0 }

\* C39: getLastSleepSession returns only sessions of the child that are not
\* deleted and have ended, one of the greatest endTime if there is any and
\* nothing if there is none, and then getWakeWindowMinutes is null
C39_LastSleep ==
  LET tbl  == local["sleepSessions"]
      done == Completed(DEFAULT_CHILD_ID)
      res  == getLastSleepSession(tbl, via["sleepSessions"], DEFAULT_CHILD_ID)
  IN  /\ res \subseteq done
      /\ done # {} => /\ res # {}
                      /\ \A i \in res : \A j \in done : tbl[i].endTime >= tbl[j].endTime
      /\ done = {} =>
           getWakeWindowMinutes(tbl, via["sleepSessions"], DEFAULT_CHILD_ID, now) = Null

\* the part of C39 about the sessions that have ended: with one, the result
\* is one of the greatest endTime, and getWakeWindowMinutes is null without
C39_AmongCompleted ==
  LET tbl  == local["sleepSessions"]
      done == Completed(DEFAULT_CHILD_ID)
      res  == getLastSleepSession(tbl, via["sleepSessions"], DEFAULT_CHILD_ID)
  IN  /\ done # {} => /\ res # {} /\ res \subseteq done
                      /\ \A i \in res : \A j \in done : tbl[i].endTime >= tbl[j].endTime
      /\ done = {} =>
           getWakeWindowMinutes(tbl, via["sleepSessions"], DEFAULT_CHILD_ID, now) = Null

----------------------------------------------------------------------------
(* C40 *)

\* the canonical child is in the remote table and not deleted
CanonicalPresent(children) ==
  Exists(children[DEFAULT_CHILD_ID]) /\ ~children[DEFAULT_CHILD_ID]._deleted

\* mergeChildren's upsert of the canonical record succeeds in this step
CanonicalUpserted ==
  mc.pc = "canonical" /\ mc'.pc = "update" /\ ~mc'.failed /\ ops' = ops

\* mergeChildren's request for the children is answered in this step
ChildrenAnswered ==
  mc.pc = "select" /\ mc'.pc # "select" /\ configured /\ online /\ ops' = ops

\* C40, second part: when the canonical child is the only child of the remote
\* table that is not deleted, mergeChildren returns after its request for the
\* children and writes nothing to the remote tables
C40_NoWriteWhenAlone ==
  [][(ChildrenAnswered /\ NotDeleted(remote["children"]) = { DEFAULT_CHILD_ID })
       => (mc'.pc = "returned" /\ remote' = remote)]_vars

\* C40: a canonical child that is in the remote table and not deleted when
\* mergeChildren starts and when it upserts the canonical record keeps its
\* createdAt (the model carries no name and no birthDate; the upsert writes
\* the three from the same old child); and C40's second part
C40_CanonicalKept ==
  [][/\ (CanonicalUpserted /\ CanonicalPresent(mc.start) /\ CanonicalPresent(remote["children"]))
          => remote'["children"][DEFAULT_CHILD_ID].createdAt
               = remote["children"][DEFAULT_CHILD_ID].createdAt
     /\ (ChildrenAnswered /\ NotDeleted(remote["children"]) = { DEFAULT_CHILD_ID })
          => (mc'.pc = "returned" /\ remote' = remote)]_vars

============================================================================
